---- MODULE Spec2Model ----
(***************************************************************************)
(* A model of kklib/src/os.c (the POSIX build variants): the retry         *)
(* transfer loops, whole-file read and write, file copy, directory         *)
(* listing, ensure_dir and the search-path / application-path resolution.  *)
(*                                                                         *)
(* Every OS call is one atomic step of the calling thread.  What the OS    *)
(* may answer is a set of outcomes computed from the modelled file system  *)
(* and descriptor table; the code's reaction to the answer is translated   *)
(* branch by branch.                                                       *)
(***************************************************************************)
EXTENDS Integers, Sequences, FiniteSets, TLC

(***************************************************************************)
(* errno values (<errno.h>, Linux numbering) the code compares against or  *)
(* passes on.                                                              *)
(***************************************************************************)
ENOENT == 2
EINTR == 4
EIO == 5
EBADF == 9
EAGAIN == 11
EACCES == 13
EEXIST == 17
ENOTDIR == 20
EINVAL == 22
EMFILE == 24

(***************************************************************************)
(* Bounds of the model.                                                    *)
(***************************************************************************)
\* longest file contents / longest transfer request
MaxLen == 2
\* most transient failures (EINTR/EAGAIN) the OS reports in a row
MaxTransient == 2
\* highest descriptor number of the descriptor table
MaxFd == 4
\* calls made one after the other (of the whole-file operations; of
\* kk_os_ensure_dir by each thread)
MaxCalls == 2
\* longest value of the PATH environment variable, in characters
MaxPathLen == 5
\* most entries other than "." and ".." a directory stream yields
MaxEntries == 1650
\* a stream of DotWindow entries or more yields "." and ".." among its first DotWindow
DotWindow == 3

Byte == {"x", "y"}
Main == "t1"
Threads == {"t1", "t2"}

Min(a, b) == IF a < b THEN a ELSE b

RECURSIVE SeqsUpTo(_, _)
SeqsUpTo(S, n) ==
  IF n = 0 THEN {<<>>}
  ELSE LET shorter == SeqsUpTo(S, n - 1)
       IN  shorter \cup {Append(s, x) : s \in {t \in shorter : Len(t) = n - 1}, x \in S}

Contents == SeqsUpTo(Byte, MaxLen)

VARIABLES
  errno,       \* [Threads -> errno value]: the thread-local errno
  files,       \* [FilePaths -> file]: the regular files, by path
  fdt,         \* [0..MaxFd -> descriptor]: the process's descriptor table
  hardFaults,  \* whether the devices may fail with EIO
  platform,    \* the build variant (which #if branch was compiled)
  rt,          \* frame of kk_posix_read_retry / kk_posix_write_retry
  io,          \* frame of kk_os_read_text_file / kk_os_write_text_file / kk_os_copy_file
  hist,        \* the calls completed so far, with their arguments and results
  ds,          \* the directory stream of the OS (opendir / readdir / closedir)
  ls,          \* frame of kk_os_list_directory
  tree,        \* [Nodes -> kind]: the directory tree that stat and mkdir see
  ro,          \* whether the tree is read-only (mkdir of a new node is refused)
  ed,          \* [Threads -> frame of kk_os_ensure_dir]
  pfs,         \* [PNodes -> kind]: the files that the path resolution sees
  ps           \* frame of kk_os_app_path_generic / kk_os_searchpathx

vars ==
  <<errno, files, fdt, hardFaults, platform, rt, io, hist, ds, ls, tree, ro, ed, pfs, ps>>

fileVars == <<files, fdt, hardFaults, platform, rt, io, hist>>
listVars == <<ds, ls>>
dirVars == <<tree, ro, ed>>
pathVars == <<pfs, ps>>

(***************************************************************************)
(* The operating system: files, descriptors, read and write.               *)
(***************************************************************************)
FilePaths == {"p", "q"}
TTY == "tty"
\* permission bits of the modelled files: 0644 and 0600
Modes == {420, 384}
\* file type bits of st_mode (<sys/stat.h>)
S_IFCHR == 8192
S_IFDIR == 16384
S_IFBLK == 24576
S_IFREG == 32768
S_IFSOCK == 49152
\* st_mode reported for a terminal: S_IFCHR | 0620
TtyMode == S_IFCHR + 400
\* the permission bits of an st_mode (mode & 07777)
Perm(mode) == mode % 4096

NoFile == [exists |-> FALSE]
File(data, mode) == [exists |-> TRUE, data |-> data, mode |-> mode]

Closed == [open |-> FALSE]
OpenFd(obj, rd, wr) == [open |-> TRUE, obj |-> obj, pos |-> 0, rd |-> rd, wr |-> wr]

\* descriptors 0, 1, 2 are the standard streams, open on the terminal
StdFds == [i \in 0..MaxFd |-> IF i <= 2 THEN OpenFd(TTY, TRUE, TRUE) ELSE Closed]

Fd(f) == IF f \in DOMAIN fdt THEN fdt[f] ELSE Closed

FreeFds == {i \in 0..MaxFd : ~fdt[i].open}
LowestFree == CHOOSE i \in FreeFds : \A j \in FreeFds : i <= j

\* open(2) without O_CREAT: [ret, e, fdt]; ret = -1 and errno e on failure
OsOpen(path, rd, wr) ==
  IF ~files[path].exists THEN [ret |-> -1, e |-> ENOENT, fdt |-> fdt]
  ELSE IF FreeFds = {} THEN [ret |-> -1, e |-> EMFILE, fdt |-> fdt]
  ELSE [ret |-> LowestFree, e |-> 0,
        fdt |-> [fdt EXCEPT ![LowestFree] = OpenFd(path, rd, wr)]]

\* close(2) on descriptor table tab: [ret, e, fdt]
OsCloseIn(tab, f) ==
  IF f \in DOMAIN tab /\ tab[f].open
  THEN [ret |-> 0, e |-> 0, fdt |-> [tab EXCEPT ![f] = Closed]]
  ELSE [ret |-> -1, e |-> EBADF, fdt |-> tab]

OsClose(f) == OsCloseIn(fdt, f)

\* close(2) in table tab, with the failure it may report for an open descriptor
\* when the device fails (EIO): the descriptor is released all the same
OsCloseAny(tab, f) ==
  {OsCloseIn(tab, f)}
    \cup (IF hardFaults /\ f \in DOMAIN tab /\ tab[f].open
          THEN {[ret |-> -1, e |-> EIO, fdt |-> [tab EXCEPT ![f] = Closed]]}
          ELSE {})

\* fstat(2): [ret, e, size, mode]
OsFstat(f) ==
  IF ~Fd(f).open THEN [ret |-> -1, e |-> EBADF, size |-> 0, mode |-> 0]
  ELSE IF Fd(f).obj = TTY THEN [ret |-> 0, e |-> 0, size |-> 0, mode |-> TtyMode]
  ELSE [ret |-> 0, e |-> 0, size |-> Len(files[Fd(f).obj].data),
        mode |-> S_IFREG + files[Fd(f).obj].mode]

\* the failures a device may report for a transfer: transient ones while fewer
\* than MaxTransient were reported in a row, EIO when the device is faulty
TransferFaults(streak) ==
  {[n |-> -1, e |-> e, data |-> <<>>] : e \in (IF streak < MaxTransient THEN {EINTR, EAGAIN} ELSE {})}
    \cup {[n |-> -1, e |-> e, data |-> <<>>] : e \in (IF hardFaults THEN {EIO} ELSE {})}

\* read(2) of at most todo bytes: the set of [n, e, data] the OS may answer
OsRead(f, todo, streak) ==
  IF ~Fd(f).open \/ ~Fd(f).rd THEN {[n |-> -1, e |-> EBADF, data |-> <<>>]}
  ELSE IF Fd(f).obj = TTY THEN {[n |-> 0, e |-> 0, data |-> <<>>]} \cup TransferFaults(streak)
  ELSE LET d == files[Fd(f).obj].data
           pos == Fd(f).pos
           m == Min(todo, Len(d) - pos)
       IN  (IF m <= 0 THEN {[n |-> 0, e |-> 0, data |-> <<>>]}
            ELSE {[n |-> k, e |-> 0, data |-> SubSeq(d, pos + 1, pos + k)] : k \in 1..m})
             \cup TransferFaults(streak)

\* write(2) of the bytes given: the set of [n, e, data] the OS may answer
\* (data: the bytes it took)
OsWrite(f, bytes, streak) ==
  IF ~Fd(f).open \/ ~Fd(f).wr THEN {[n |-> -1, e |-> EBADF, data |-> <<>>]}
  ELSE (IF Len(bytes) = 0 THEN {[n |-> 0, e |-> 0, data |-> <<>>]}
        ELSE {[n |-> k, e |-> 0, data |-> SubSeq(bytes, 1, k)] : k \in 1..Len(bytes)})
         \cup TransferFaults(streak)

\* the contents of a file after `bytes` were written at offset pos
Overwrite(d, pos, bytes) ==
  [i \in 1..(IF pos + Len(bytes) > Len(d) THEN pos + Len(bytes) ELSE Len(d)) |->
     IF i > pos /\ i <= pos + Len(bytes) THEN bytes[i - pos] ELSE d[i]]

\* the descriptor table after descriptor f moved the bytes of outcome o
AfterTransfer(f, o) ==
  IF o.n > 0 THEN [fdt EXCEPT ![f].pos = @ + o.n] ELSE fdt

\* the files after descriptor f wrote the bytes of outcome o
FilesAfterWrite(f, o) ==
  IF o.n > 0 /\ Fd(f).obj # TTY
  THEN [files EXCEPT ![Fd(f).obj].data = Overwrite(@, Fd(f).pos, o.data)]
  ELSE files

SetErrno(t, o) == IF o.e # 0 THEN [errno EXCEPT ![t] = o.e] ELSE errno

(***************************************************************************)
(* Retry Transfer: kk_posix_read_retry and kk_posix_write_retry.           *)
(* rt.pc is "idle", "loop" (inside do..while) or "ret" (returned).         *)
(***************************************************************************)
\* the largest single request: INT32_MAX, the cap of the WIN32 variant
\* (KK_SSIZE_MAX of the POSIX variant is larger still)
ChunkMax == 2147483647

RtIdle == [pc |-> "idle"]
DsIdle == [pc |-> "idle"]
LsIdle == [pc |-> "idle"]
IoIdle == [pc |-> "idle"]

\* the frame at the entry of a retry loop; n is the last answer of the OS (1 before
\* the first call), streak the transient failures in a row (saturating at
\* MaxTransient), retried whether any call was retried, req the size asked of the
\* last read and rem what was left of the buffer at that call
RtCall(kind, f, buf, buflen) ==
  [pc |-> "loop", kind |-> kind, fd |-> f, buf |-> buf, buflen |-> buflen,
   ofs |-> 0, err |-> 0, n |-> 1, streak |-> 0, retried |-> FALSE,
   req |-> 0, rem |-> buflen]

IsTransientAny(e) == TRUE

\* errno values the loops retry on
IsTransient(e) == e = EAGAIN \/ e = EINTR

RetryOnce(ofs, buflen) == FALSE

\* while (ofs < buflen)
RetryContinue(ofs, buflen) == ofs < buflen

TodoWhole(buflen, ofs) == Min(buflen, ChunkMax)

\* size_t todo = buflen - ofs; if (todo > INT32_MAX) todo = INT32_MAX;
Todo(buflen, ofs) == Min(buflen - ofs, ChunkMax)

\* one iteration of do { .. } while (ofs < buflen) of kk_posix_read_retry
ReadRetryStep ==
  /\ rt.pc = "loop" /\ rt.kind = "read"
  /\ LET todo == Todo(rt.buflen, rt.ofs)
         asked == [rt EXCEPT !.req = todo, !.rem = rt.buflen - rt.ofs]
     IN \E o \in OsRead(rt.fd, todo, rt.streak) :
          /\ errno' = SetErrno(Main, o)
          /\ fdt' = AfterTransfer(rt.fd, o)
          /\ IF o.n < 0
             THEN IF ~IsTransient(o.e)
                  THEN rt' = [asked EXCEPT !.err = o.e, !.n = o.n, !.pc = "ret"]
                  ELSE rt' = [asked EXCEPT !.n = o.n, !.streak = Min(@ + 1, MaxTransient), !.retried = TRUE,
                                        !.pc = IF RetryContinue(rt.ofs, rt.buflen)
                                               THEN "loop" ELSE "ret"]
             ELSE IF o.n = 0
                  THEN rt' = [asked EXCEPT !.n = o.n, !.pc = "ret"]
                  ELSE rt' = [asked EXCEPT !.n = o.n, !.ofs = @ + o.n, !.streak = 0,
                                        !.buf = rt.buf \o o.data,
                                        !.pc = IF RetryContinue(rt.ofs + o.n, rt.buflen)
                                               THEN "loop" ELSE "ret"]
  /\ UNCHANGED <<files, hardFaults, platform, io, hist>>
  /\ UNCHANGED <<listVars, dirVars, pathVars>>

\* one iteration of do { .. } while (ofs < len) of kk_posix_write_retry
WriteRetryStep ==
  /\ rt.pc = "loop" /\ rt.kind = "write"
  /\ LET todo == Min(rt.buflen - rt.ofs, ChunkMax)
     IN \E o \in OsWrite(rt.fd, SubSeq(rt.buf, rt.ofs + 1, rt.ofs + todo), rt.streak) :
          /\ errno' = SetErrno(Main, o)
          /\ files' = FilesAfterWrite(rt.fd, o)
          /\ fdt' = AfterTransfer(rt.fd, o)
          /\ IF o.n < 0
             THEN IF ~IsTransient(o.e)
                  THEN rt' = [rt EXCEPT !.err = o.e, !.n = o.n, !.pc = "ret"]
                  ELSE rt' = [rt EXCEPT !.n = o.n, !.streak = Min(@ + 1, MaxTransient), !.retried = TRUE,
                                        !.pc = IF RetryContinue(rt.ofs, rt.buflen)
                                               THEN "loop" ELSE "ret"]
             ELSE IF o.n = 0
                  THEN rt' = [rt EXCEPT !.err = EIO, !.n = o.n, !.pc = "ret"]
                  ELSE rt' = [rt EXCEPT !.n = o.n, !.ofs = @ + o.n, !.streak = 0,
                                        !.pc = IF RetryContinue(rt.ofs + o.n, rt.buflen)
                                               THEN "loop" ELSE "ret"]
  /\ UNCHANGED <<hardFaults, platform, io, hist>>
  /\ UNCHANGED <<listVars, dirVars, pathVars>>

(***************************************************************************)
(* kk_posix_open, kk_posix_close, kk_posix_fsize.                          *)
(***************************************************************************)
\* return (f < 0 ? errno : f): [f, e, fdt]
kk_posix_open(path, rd, wr) ==
  LET o == OsOpen(path, rd, wr)
  IN  [f |-> IF o.ret < 0 THEN o.e ELSE o.ret, e |-> o.e, fdt |-> o.fdt]

\* return (close(f) < 0 ? errno : 0): [err, e, fdt]
kk_posix_close(f) ==
  LET o == OsClose(f)
  IN  [err |-> IF o.ret < 0 THEN o.e ELSE 0, e |-> o.e, fdt |-> o.fdt]

\* *fsize = 0; err = fstat(f); if (err != 0) return err; *fsize = st_size: [err, e, fsize]
kk_posix_fsize(f) ==
  LET o == OsFstat(f)
  IN  IF o.ret < 0 THEN [err |-> o.e, e |-> o.e, fsize |-> 0]
      ELSE [err |-> 0, e |-> 0, fsize |-> o.size]

(***************************************************************************)
(* kk_os_read_text_file and kk_os_write_text_file.                         *)
(* io.pc: "idle", "open", then "fsize", "read" (read) or "wloop", "wend"   *)
(* (write).  A call that returns appends its record to hist.               *)
(* The result of a read is the bytes of the buffer; the re-encoding done   *)
(* by kk_string_convert_from_mutf8 belongs to the string type, not os.c.   *)
(***************************************************************************)
NoResult == [set |-> FALSE]
Result(data) == [set |-> TRUE, data |-> data]

\* the record of a returned call; of a read it keeps len, the size that
\* kk_posix_fsize answered, and what the read loop returned: bytes, the bytes read,
\* rerr, its status, eof, whether it ended on a read of 0 bytes
Returned(status, result) ==
  LET looped == io.op = "read" /\ rt.pc = "ret"
  IN  [op |-> io.op, path |-> io.path, content |-> io.content, fresh |-> io.fresh,
       status |-> status, result |-> result,
       len |-> io.len,
       bytes |-> IF looped THEN rt.buf ELSE <<>>,
       rerr |-> IF looped THEN rt.err ELSE 0,
       eof |-> looped /\ rt.n = 0 /\ rt.err = 0]

\* a byte of the buffer that no read has filled
Uninit == "?"

\* kk_string_alloc_cbuf(len, &s) after the read loop stored buf at its begin
kk_string_alloc_cbuf(len, buf) ==
  [i \in 1..(IF len > Len(buf) THEN len ELSE Len(buf)) |->
     IF i <= Len(buf) THEN buf[i] ELSE Uninit]

KeepLength(str, n) == str

\* kk_string_adjust_length(str, nread)
kk_string_adjust_length(str, n) == SubSeq(str, 1, n)

TextCall ==
  /\ io.pc = "idle" /\ Len(hist) < MaxCalls
  /\ \E op \in {"read", "write"}, path \in FilePaths, c \in Contents :
       /\ op = "read" => c = <<>>
       /\ io' = [pc |-> "open", op |-> op, path |-> path, content |-> c,
                 fresh |-> ~files[path].exists, f |-> 0, len |-> 0]
  /\ UNCHANGED <<errno, files, fdt, hardFaults, platform, rt, hist>>
  /\ UNCHANGED <<listVars, dirVars, pathVars>>

\* f = kk_posix_open(path, O_RDONLY); if (f < 0) return errno;
ReadOpen ==
  /\ io.pc = "open" /\ io.op = "read"
  /\ LET o == kk_posix_open(io.path, TRUE, FALSE)
     IN  /\ errno' = SetErrno(Main, o)
         /\ fdt' = o.fdt
         /\ IF o.f < 0
            THEN /\ hist' = Append(hist, Returned(errno'[Main], NoResult))
                 /\ io' = IoIdle
            ELSE /\ io' = [io EXCEPT !.pc = "fsize", !.f = o.f]
                 /\ hist' = hist
  /\ UNCHANGED <<files, hardFaults, platform, rt>>
  /\ UNCHANGED <<listVars, dirVars, pathVars>>

\* err = kk_posix_fsize(f, &len); if (err != 0) { kk_posix_close(f); return err; }
\* then kk_string_alloc_cbuf(len) and the call of kk_posix_read_retry(f, s, len, &nread)
ReadFsize ==
  /\ io.pc = "fsize"
  /\ LET o == kk_posix_fsize(io.f)
         c == kk_posix_close(io.f)
     IN  IF o.err # 0
         THEN /\ errno' = SetErrno(Main, c)
              /\ fdt' = c.fdt
              /\ hist' = Append(hist, Returned(o.err, NoResult))
              /\ io' = IoIdle
              /\ rt' = rt
         ELSE /\ io' = [io EXCEPT !.pc = "read", !.len = o.fsize]
              /\ rt' = RtCall("read", io.f, <<>>, o.fsize)
              /\ UNCHANGED <<errno, fdt, hist>>
  /\ UNCHANGED <<files, hardFaults, platform>>
  /\ UNCHANGED <<listVars, dirVars, pathVars>>

\* kk_posix_close(f); if (err < 0) return err;
\* if (nread < len) adjust the length; *result = str; return 0;
ReadFinish ==
  /\ io.pc = "read" /\ rt.pc = "ret"
  /\ LET c == kk_posix_close(io.f)
     IN  /\ errno' = SetErrno(Main, c)
         /\ fdt' = c.fdt
         /\ IF rt.err < 0
            THEN hist' = Append(hist, Returned(rt.err, NoResult))
            ELSE LET str == kk_string_alloc_cbuf(io.len, rt.buf)
                 IN  hist' = Append(hist, Returned(0, Result(
                       IF rt.ofs < io.len THEN kk_string_adjust_length(str, rt.ofs)
                       ELSE str)))
  /\ io' = IoIdle
  /\ rt' = RtIdle
  /\ UNCHANGED <<files, hardFaults, platform>>
  /\ UNCHANGED <<listVars, dirVars, pathVars>>

\* another process truncates the file that kk_os_read_text_file is reading, after
\* kk_posix_fsize answered its size
FileShrinks ==
  /\ io.pc = "read" /\ rt.pc = "loop"
  /\ Fd(io.f).open /\ Fd(io.f).obj \in FilePaths
  /\ \E k \in 0..(Len(files[Fd(io.f).obj].data) - 1) :
       files' = [files EXCEPT ![Fd(io.f).obj].data = SubSeq(@, 1, k)]
  /\ UNCHANGED <<errno, fdt, hardFaults, platform, rt, io, hist>>
  /\ UNCHANGED <<listVars, dirVars, pathVars>>

\* f = kk_posix_open(path, O_WRONLY); if (f < 0) return errno;
\* if (len > 0) the call of kk_posix_write_retry(f, buf, len, &nwritten)
WriteOpen ==
  /\ io.pc = "open" /\ io.op = "write"
  /\ LET o == kk_posix_open(io.path, FALSE, TRUE)
         len == Len(io.content)
     IN  /\ errno' = SetErrno(Main, o)
         /\ fdt' = o.fdt
         /\ IF o.f < 0
            THEN /\ hist' = Append(hist, Returned(errno'[Main], NoResult))
                 /\ io' = IoIdle
                 /\ rt' = rt
            ELSE /\ hist' = hist
                 /\ IF len > 0
                    THEN /\ io' = [io EXCEPT !.pc = "wloop", !.f = o.f, !.len = len]
                         /\ rt' = RtCall("write", o.f, io.content, len)
                    ELSE /\ io' = [io EXCEPT !.pc = "wend", !.f = o.f, !.len = len]
                         /\ rt' = rt
  /\ UNCHANGED <<files, hardFaults, platform>>
  /\ UNCHANGED <<listVars, dirVars, pathVars>>

\* if (err == 0 && nwritten < len) err = EIO;  kk_posix_close(f); return err;
WriteFinish ==
  /\ \/ io.pc = "wloop" /\ rt.pc = "ret"
     \/ io.pc = "wend"
  /\ LET err == IF io.pc = "wend" THEN 0
                ELSE IF rt.err = 0 /\ rt.ofs < io.len THEN EIO ELSE rt.err
         c == kk_posix_close(io.f)
     IN  /\ errno' = SetErrno(Main, c)
         /\ fdt' = c.fdt
         /\ hist' = Append(hist, Returned(err, NoResult))
  /\ io' = IoIdle
  /\ rt' = RtIdle
  /\ UNCHANGED <<files, hardFaults, platform>>
  /\ UNCHANGED <<listVars, dirVars, pathVars>>

(***************************************************************************)
(* The OS primitives of the copy: creat, fcopyfile (macOS), sendfile       *)
(* (Linux) and copy_file_range.                                            *)
(***************************************************************************)
\* creat(2) = open(O_CREAT|O_WRONLY|O_TRUNC, mode): a new file gets the permission
\* bits of mode, an existing one is truncated and keeps its own: [ret, e, fdt, files]
OsCreat(path, mode) ==
  IF FreeFds = {} THEN [ret |-> -1, e |-> EMFILE, fdt |-> fdt, files |-> files]
  ELSE [ret |-> LowestFree, e |-> 0,
        fdt |-> [fdt EXCEPT ![LowestFree] = OpenFd(path, FALSE, TRUE)],
        files |-> [files EXCEPT ![path] =
                     IF @.exists THEN [@ EXCEPT !.data = <<>>]
                     ELSE File(<<>>, Perm(mode))]]

\* the answers [n, e, data] to a kernel copy of at most count bytes from offset
\* off of descriptor inp: a short count is allowed, 0 means end of input
KernelCopy(inp, out, off, count, streak) ==
  IF ~Fd(inp).open \/ ~Fd(inp).rd \/ ~Fd(out).open \/ ~Fd(out).wr
  THEN {[n |-> -1, e |-> EBADF, data |-> <<>>]}
  ELSE IF Fd(inp).obj = TTY \/ Fd(out).obj = TTY
  THEN {[n |-> -1, e |-> EINVAL, data |-> <<>>]}
  ELSE LET d == files[Fd(inp).obj].data
           m == Min(count, Len(d) - off)
       IN  (IF m <= 0 THEN {[n |-> 0, e |-> 0, data |-> <<>>]}
            ELSE {[n |-> k, e |-> 0, data |-> SubSeq(d, off + 1, off + k)] : k \in 1..m})
             \cup TransferFaults(streak)

\* sendfile(out, inp, &offset, count): reads at offset, writes at out's position
OsSendfile(out, inp, off, count) == KernelCopy(inp, out, off, count, 0)

\* copy_file_range(inp, &off_in, out, &off_out, count, 0): as sendfile, and EINVAL
\* where the file system does not support it
OsCopyFileRange(inp, out, off, count, streak) ==
  KernelCopy(inp, out, off, count, streak) \cup {[n |-> -1, e |-> EINVAL, data |-> <<>>]}

\* fcopyfile(inp, out, 0, COPYFILE_ALL): the whole contents and the permission
\* bits, or a failure: the set of [ret, e, files]
OsFcopyfile(inp, out) ==
  IF ~Fd(inp).open \/ ~Fd(out).open
  THEN {[ret |-> -1, e |-> EBADF, files |-> files]}
  ELSE IF Fd(inp).obj = TTY \/ Fd(out).obj = TTY
  THEN {[ret |-> -1, e |-> EINVAL, files |-> files]}
  ELSE {[ret |-> 0, e |-> 0,
         files |-> [files EXCEPT ![Fd(out).obj] =
                      File(files[Fd(inp).obj].data, files[Fd(inp).obj].mode)]]}
         \cup (IF hardFaults THEN {[ret |-> -1, e |-> EIO, files |-> files]} ELSE {})

\* the files after a kernel copy wrote the bytes of outcome o at offset pos of out
FilesAfterCopy(out, pos, o) ==
  IF o.n > 0 THEN [files EXCEPT ![Fd(out).obj].data = Overwrite(@, pos, o.data)]
  ELSE files

(***************************************************************************)
(* kk_os_copy_file (the non-WIN32 variant) and kk_posix_copy_file.         *)
(* io.pc: "copen", "cstat", "ccreat", then the content copy of the build   *)
(* variant ("fcopyfile", "sendfile", or "cfr" / "cbuf", "cread", "cwrite"  *)
(* of kk_posix_copy_file), then "cclose".  The timestamps are not          *)
(* modelled (futimens changes nothing else), allocations succeed.          *)
(***************************************************************************)
Platforms == {"apple", "linux", "generic", "generic_cfr"}

\* size_t buflen = 1024 * 1024
BufMax == 1048576

\* the record of a returned copy
CopyReturned(status) ==
  [op |-> "copy", path |-> io.path, to |-> io.to, status |-> status,
   creat |-> io.creat, creatMode |-> io.creatMode, files0 |-> io.files0,
   closed |-> FALSE, errBefore |-> io.err, closeInp |-> 0, closeOut |-> 0]

CopyCall ==
  /\ io.pc = "idle" /\ Len(hist) = 0
  /\ \E from \in FilePaths, to \in FilePaths :
       io' = [pc |-> "copen", op |-> "copy", path |-> from, to |-> to,
              inp |-> 0, out |-> 0, size |-> 0, mode |-> 0, err |-> 0,
              off |-> 0, todo |-> 0, rc |-> 0, streak |-> 0,
              creat |-> FALSE, creatMode |-> 0, files0 |-> files,
              cfrErr |-> 0, buffered |-> FALSE]
  /\ UNCHANGED <<errno, files, fdt, hardFaults, platform, rt, hist>>
  /\ UNCHANGED <<listVars, dirVars, pathVars>>

\* if ((inp = kk_posix_open(from, O_RDONLY, ctx)) < 0) return errno;
CopyOpen ==
  /\ io.pc = "copen"
  /\ LET o == kk_posix_open(io.path, TRUE, FALSE)
     IN  /\ errno' = SetErrno(Main, o)
         /\ fdt' = o.fdt
         /\ IF o.f < 0
            THEN /\ hist' = Append(hist, CopyReturned(errno'[Main]))
                 /\ io' = IoIdle
            ELSE /\ io' = [io EXCEPT !.pc = "cstat", !.inp = o.f]
                 /\ hist' = hist
  /\ UNCHANGED <<files, hardFaults, platform, rt>>
  /\ UNCHANGED <<listVars, dirVars, pathVars>>

\* if (fstat(inp, &finfo) < 0) { close(inp); return errno; }
CopyStat ==
  /\ io.pc = "cstat"
  /\ LET o == OsFstat(io.inp)
         c == OsClose(io.inp)
     IN  IF o.ret < 0
         THEN /\ errno' = [errno EXCEPT ![Main] = IF c.e # 0 THEN c.e ELSE o.e]
              /\ fdt' = c.fdt
              /\ hist' = Append(hist, CopyReturned(errno'[Main]))
              /\ io' = IoIdle
         ELSE /\ io' = [io EXCEPT !.pc = "ccreat", !.size = o.size, !.mode = o.mode]
              /\ UNCHANGED <<errno, fdt, hist>>
  /\ UNCHANGED <<files, hardFaults, platform, rt>>
  /\ UNCHANGED <<listVars, dirVars, pathVars>>

\* kk_posix_creat is not defined in os.c: it creates or truncates the destination
\* with the permission bits given, and answers the descriptor, or -1 with errno set
kk_posix_creat(path, mode) == OsCreat(path, mode)

\* where the content copy of the build variant starts
ContentPc ==
  CASE platform = "apple" -> "fcopyfile"
    [] platform = "linux" -> "sendfile"
    [] platform = "generic_cfr" -> "cfr"
    [] OTHER -> "cbuf"

\* if ((out = kk_posix_creat(to, finfo.st_mode)) < 0) { close(inp); return errno; }
\* then, in the generic variants, the entry of kk_posix_copy_file(inp, out, st_size)
CopyCreat ==
  /\ io.pc = "ccreat"
  /\ LET o == kk_posix_creat(io.to, io.mode)
         c == OsCloseIn(o.fdt, io.inp)
     IN  IF o.ret < 0
         THEN /\ errno' = [errno EXCEPT ![Main] = IF c.e # 0 THEN c.e ELSE o.e]
              /\ fdt' = c.fdt
              /\ files' = o.files
              /\ hist' = Append(hist, [CopyReturned(errno'[Main]) EXCEPT
                                         !.creat = TRUE, !.creatMode = io.mode])
              /\ io' = IoIdle
         ELSE /\ fdt' = o.fdt
              /\ files' = o.files
              /\ io' = [io EXCEPT !.pc = ContentPc, !.out = o.ret, !.todo = io.size,
                                  !.creat = TRUE, !.creatMode = io.mode]
              /\ UNCHANGED <<errno, hist>>
  /\ UNCHANGED <<hardFaults, platform, rt>>
  /\ UNCHANGED <<listVars, dirVars, pathVars>>

\* __APPLE__: if (fcopyfile(inp, out, 0, COPYFILE_ALL) != 0) err = errno;
CopyFcopyfile ==
  /\ io.pc = "fcopyfile"
  /\ \E o \in OsFcopyfile(io.inp, io.out) :
       /\ errno' = SetErrno(Main, o)
       /\ files' = o.files
       /\ io' = [io EXCEPT !.pc = "cclose", !.err = IF o.ret # 0 THEN o.e ELSE 0]
  /\ UNCHANGED <<fdt, hardFaults, platform, rt, hist>>
  /\ UNCHANGED <<listVars, dirVars, pathVars>>

\* __linux__: off_t copied = 0;
\* if (sendfile(out, inp, &copied, finfo.st_size) < 0) err = errno;
CopySendfile ==
  /\ io.pc = "sendfile"
  /\ \E o \in OsSendfile(io.out, io.inp, 0, io.size) :
       /\ errno' = SetErrno(Main, o)
       /\ files' = FilesAfterCopy(io.out, Fd(io.out).pos, o)
       /\ fdt' = AfterTransfer(io.out, o)
       /\ io' = [io EXCEPT !.pc = "cclose", !.err = IF o.n < 0 THEN o.e ELSE 0]
  /\ UNCHANGED <<hardFaults, platform, rt, hist>>
  /\ UNCHANGED <<listVars, dirVars, pathVars>>

CfrExitAnyEinval(err, off) ==
  IF err # EINVAL
  THEN [io EXCEPT !.pc = "cclose", !.err = err, !.off = off, !.cfrErr = err]
  ELSE [io EXCEPT !.pc = "cbuf", !.err = 0, !.off = off, !.todo = io.size, !.cfrErr = err]

\* after the copy_file_range loop: if (err != EINVAL || off_in > 0) return err;
\* otherwise err = 0 and the buffered loop is entered; cfrErr keeps the err the
\* loop ended with
CfrExit(err, off) ==
  IF err # EINVAL \/ off > 0
  THEN [io EXCEPT !.pc = "cclose", !.err = err, !.off = off, !.cfrErr = err]
  ELSE [io EXCEPT !.pc = "cbuf", !.err = 0, !.off = off, !.todo = io.size, !.cfrErr = err]

\* COPY_FR_COPY: one test of while (off_in < len) and one copy_file_range call
CopyFileRange ==
  /\ io.pc = "cfr"
  /\ IF ~(io.off < io.size)
     THEN /\ io' = CfrExit(io.err, io.off)
          /\ UNCHANGED <<errno, files>>
     ELSE \E o \in OsCopyFileRange(io.inp, io.out, io.off,
                                   Min(io.size - io.off, ChunkMax), io.streak) :
            /\ errno' = SetErrno(Main, o)
            /\ files' = FilesAfterCopy(io.out, io.off, o)
            /\ IF o.n < 0
               THEN IF ~IsTransient(o.e)
                    THEN io' = CfrExit(o.e, io.off)
                    ELSE io' = [io EXCEPT !.streak = Min(@ + 1, MaxTransient)]
               ELSE IF o.n = 0
                    THEN io' = CfrExit(io.err, io.off)
                    ELSE io' = [io EXCEPT !.off = @ + o.n, !.streak = 0]
  /\ UNCHANGED <<fdt, hardFaults, platform, rt, hist>>
  /\ UNCHANGED <<listVars, dirVars, pathVars>>

\* buflen = min(1 MiB, len); while (todo > 0) { toread = min(todo, buflen);
\* err = kk_posix_read_retry(inp, buf, toread, &read_count); .. } return err;
CopyBuf ==
  /\ io.pc = "cbuf"
  /\ LET buflen == Min(BufMax, io.size)
     IN  IF io.todo > 0
         THEN /\ rt' = RtCall("read", io.inp, <<>>, Min(io.todo, buflen))
              /\ io' = [io EXCEPT !.pc = "cread", !.buffered = TRUE]
         ELSE /\ rt' = rt
              /\ io' = [io EXCEPT !.pc = "cclose", !.buffered = TRUE]
  /\ UNCHANGED <<errno, files, fdt, hardFaults, platform, hist>>
  /\ UNCHANGED <<listVars, dirVars, pathVars>>

\* if (err != 0 || read_count == 0) break;
\* err = kk_posix_write_retry(out, buf, read_count, &write_count);
CopyAfterRead ==
  /\ io.pc = "cread" /\ rt.pc = "ret"
  /\ IF rt.err # 0 \/ rt.ofs = 0
     THEN /\ io' = [io EXCEPT !.pc = "cclose", !.err = rt.err]
          /\ rt' = RtIdle
     ELSE /\ io' = [io EXCEPT !.pc = "cwrite", !.err = rt.err, !.rc = rt.ofs]
          /\ rt' = RtCall("write", io.out, rt.buf, rt.ofs)
  /\ UNCHANGED <<errno, files, fdt, hardFaults, platform, hist>>
  /\ UNCHANGED <<listVars, dirVars, pathVars>>

\* if (err != 0) break;  todo -= read_count;
CopyAfterWrite ==
  /\ io.pc = "cwrite" /\ rt.pc = "ret"
  /\ IF rt.err # 0
     THEN io' = [io EXCEPT !.pc = "cclose", !.err = rt.err]
     ELSE io' = [io EXCEPT !.pc = "cbuf", !.err = rt.err, !.todo = @ - io.rc]
  /\ rt' = RtIdle
  /\ UNCHANGED <<errno, files, fdt, hardFaults, platform, hist>>
  /\ UNCHANGED <<listVars, dirVars, pathVars>>

KeepErr(err, ret, e) == err

\* if (close(out) == -1) { if (err == 0) err = errno; }
ErrAfterClose(err, ret, e) == IF ret = -1 /\ err = 0 THEN e ELSE err

\* close(inp); if (close(out) == -1) { if (err == 0) err = errno; }  return err;
\* the record of the return keeps what the two close calls answered
CopyClose ==
  /\ io.pc = "cclose"
  /\ \E c1 \in OsCloseAny(fdt, io.inp) : \E c2 \in OsCloseAny(c1.fdt, io.out) :
       LET e == IF c2.e # 0 THEN c2.e ELSE IF c1.e # 0 THEN c1.e ELSE errno[Main]
       IN  /\ errno' = [errno EXCEPT ![Main] = e]
           /\ fdt' = c2.fdt
           /\ hist' = Append(hist, [CopyReturned(ErrAfterClose(io.err, c2.ret, e)) EXCEPT
                                      !.closed = TRUE, !.closeInp = c1.e, !.closeOut = c2.e])
  /\ io' = IoIdle
  /\ UNCHANGED <<files, hardFaults, platform, rt>>
  /\ UNCHANGED <<listVars, dirVars, pathVars>>

(***************************************************************************)
(* The directory stream of the OS: opendir, readdir, closedir.             *)
(* ds.openErr is what opendir answers (0: it succeeds); ds.k counts the    *)
(* entries other than "." and ".." yielded so far: the i-th of them is     *)
(* Entry(i).  At every readdir the OS may yield the next entry, "." or     *)
(* ".." (once each, among the first DotWindow entries), report the end of  *)
(* the stream, or fail.                                                    *)
(***************************************************************************)
Null == [kind |-> "null", id |-> 0]
DotEntry == [kind |-> ".", id |-> 0]
DotDotEntry == [kind |-> "..", id |-> 0]
Entry(k) == [kind |-> "name", id |-> k]

\* opendir(3): [ok, e, ds]
OsOpendir ==
  IF ds.openErr # 0 THEN [ok |-> FALSE, e |-> ds.openErr, ds |-> ds]
  ELSE [ok |-> TRUE, e |-> 0, ds |-> [ds EXCEPT !.open = TRUE]]

\* readdir(3) on the stream st: the set of [entry, e, ds]; at the end of the stream
\* it answers NULL and leaves errno as it is (e = 0), on failure NULL and errno e
OsReaddir(st) ==
  LET pos == st.k + (IF st.dot THEN 1 ELSE 0) + (IF st.dotdot THEN 1 ELSE 0)
      missing == (IF st.dot THEN 0 ELSE 1) + (IF st.dotdot THEN 0 ELSE 1)
  IN  {[entry |-> DotEntry, e |-> 0, ds |-> [st EXCEPT !.dot = TRUE]] :
         x \in (IF ~st.dot /\ pos < DotWindow THEN {1} ELSE {})}
       \cup {[entry |-> DotDotEntry, e |-> 0, ds |-> [st EXCEPT !.dotdot = TRUE]] :
         x \in (IF ~st.dotdot /\ pos < DotWindow THEN {1} ELSE {})}
       \cup {[entry |-> Entry(st.k + 1), e |-> 0, ds |-> [st EXCEPT !.k = @ + 1]] :
         x \in (IF st.k < MaxEntries /\ (missing = 0 \/ pos + 1 + missing <= DotWindow)
                THEN {1} ELSE {})}
       \cup {[entry |-> Null, e |-> 0, ds |-> [st EXCEPT !.ended = TRUE]]}
       \cup {[entry |-> Null, e |-> EIO, ds |-> [st EXCEPT !.failed = EIO]]}

\* closedir(3)
OsClosedir(st) == [st EXCEPT !.open = FALSE, !.closes = @ + 1]

(***************************************************************************)
(* os_findnext, os_findfirst, os_direntry_name (the dirent variants) and   *)
(* kk_os_list_directory.  ls.pc: "findfirst", then per entry "name",       *)
(* "push", "write", "next", at the end "close" and "done".                 *)
(***************************************************************************)
\* size_t len = 100
InitialCapacity == 100
\* (len > 1000 ? ..
GrowThreshold == 1000
\* .. len + 1000 : ..
GrowStep == 1000

\* kk_string_empty()
EmptyString == [kind |-> "empty", id |-> 0]
\* kk_integer_box(kk_integer_zero), the filler of the vector
ZeroBox == 0
\* kk_string_box(name): the boxed name of the i-th entry is i
kk_string_box(name) == name.id
\* kk_box_null
BoxNull == ZeroBox - 1

FindnextOk(entry, en) == 0

\* *err = (*entry != NULL || errno == ENOENT ? 0 : errno)
FindnextErr(entry, en) == IF entry # Null \/ en = ENOENT THEN 0 ELSE en

\* "" for ".", ".." (and a NULL name), the name otherwise
os_direntry_name(entry) ==
  IF entry = Null \/ entry = DotEntry \/ entry = DotDotEntry THEN EmptyString ELSE entry

ListFullGt(count, len) == count > len

\* if (count == len)
ListFull(count, len) == count = len

\* newlen = (len > 1000 ? len + 1000 : 2*len)
NewLen(len) == IF len > GrowThreshold THEN len + GrowStep ELSE 2 * len

\* kk_vector_realloc(vec, newlen, filler): the first elements kept, the rest filled
kk_vector_realloc(vec, newlen, filler) ==
  [i \in 1..newlen |-> IF i <= Len(vec) THEN vec[i] ELSE filler]

LsDone(names, status) == [pc |-> "done", names |-> names, status |-> status]

OpendirNeverFails(d) == FALSE

\* os_findfirst: if (*d == NULL)
OpendirFailed(d) == ~d.ok

\* ok = os_findfirst(dir, &d, &entry, &err): opendir, then the first os_findnext;
\* if (!ok) { *contents = kk_vector_empty(); return err; }
\* count = 0; len = 100; vec = kk_vector_alloc(len, 0)
ListFindFirst ==
  /\ ls.pc = "findfirst"
  /\ LET d == OsOpendir
     IN  IF OpendirFailed(d)
         THEN /\ errno' = SetErrno(Main, d)
              /\ ds' = d.ds
              /\ ls' = LsDone(<<>>, d.e)
         ELSE \E o \in OsReaddir(d.ds) :
                /\ errno' = SetErrno(Main, o)
                /\ ds' = o.ds
                /\ IF o.entry # Null
                   THEN ls' = [pc |-> "name", entry |-> o.entry, name |-> EmptyString,
                               err |-> FindnextErr(o.entry, errno'[Main]),
                               count |-> 0, len |-> InitialCapacity,
                               vec |-> [i \in 1..InitialCapacity |-> ZeroBox]]
                   ELSE ls' = LsDone(<<>>, FindnextErr(o.entry, errno'[Main]))
  /\ UNCHANGED <<fileVars, dirVars, pathVars>>

\* name = os_direntry_name(&entry); if (!kk_string_is_empty_borrow(name)) push it
ListName ==
  /\ ls.pc = "name"
  /\ LET name == os_direntry_name(ls.entry)
     IN  ls' = [ls EXCEPT !.name = name,
                          !.pc = IF name # EmptyString THEN "push" ELSE "next"]
  /\ UNCHANGED <<errno, ds>>
  /\ UNCHANGED <<fileVars, dirVars, pathVars>>

\* if (count == len) { vec = kk_vector_realloc(vec, newlen, 0); len = newlen; }
ListGrow ==
  /\ ls.pc = "push"
  /\ IF ListFull(ls.count, ls.len)
     THEN ls' = [ls EXCEPT !.pc = "write", !.len = NewLen(ls.len),
                           !.vec = kk_vector_realloc(ls.vec, NewLen(ls.len), ZeroBox)]
     ELSE ls' = [ls EXCEPT !.pc = "write"]
  /\ UNCHANGED <<errno, ds>>
  /\ UNCHANGED <<fileVars, dirVars, pathVars>>

\* (kk_vector_buf(vec, NULL))[count] = kk_string_box(name); count++;
\* (a write at or past the capacity lands outside the vector)
ListWrite ==
  /\ ls.pc = "write"
  /\ ls' = [ls EXCEPT !.pc = "next", !.count = @ + 1,
                      !.vec = IF ls.count < Len(ls.vec)
                              THEN [ls.vec EXCEPT ![ls.count + 1] = kk_string_box(ls.name)]
                              ELSE ls.vec]
  /\ UNCHANGED <<errno, ds>>
  /\ UNCHANGED <<fileVars, dirVars, pathVars>>

\* } while (os_findnext(d, &entry, &err));
ListNext ==
  /\ ls.pc = "next"
  /\ \E o \in OsReaddir(ds) :
       /\ errno' = SetErrno(Main, o)
       /\ ds' = o.ds
       /\ ls' = [ls EXCEPT !.entry = o.entry,
                           !.err = FindnextErr(o.entry, errno'[Main]),
                           !.pc = IF o.entry # Null THEN "name" ELSE "close"]
  /\ UNCHANGED <<fileVars, dirVars, pathVars>>

\* os_findclose(d); *contents = kk_vector_realloc(vec, count, kk_box_null); return err;
ListClose ==
  /\ ls.pc = "close"
  /\ ds' = OsClosedir(ds)
  /\ ls' = LsDone(kk_vector_realloc(ls.vec, ls.count, BoxNull), ls.err)
  /\ UNCHANGED errno
  /\ UNCHANGED <<fileVars, dirVars, pathVars>>

(***************************************************************************)
(* The directory tree of the OS: stat(2) and mkdir(2).                     *)
(* A path is a sequence of characters, a node of the tree the sequence of  *)
(* the names on the way to it from the root (the working directory is the  *)
(* root).  '/' is the only separator the OS knows: a backslash is part of  *)
(* a name.  The permission bits that mkdir is given are not modelled.      *)
(***************************************************************************)
NUL == "NUL"

CharAt(path, i) == IF i <= Len(path) THEN path[i] ELSE NUL

RECURSIVE Components(_)
\* the names of a path: the non-empty pieces between its '/'
Components(s) ==
  IF s = <<>> THEN <<>>
  ELSE LET slashes == {j \in 1..Len(s) : s[j] = "/"}
           j == IF slashes = {} THEN Len(s) + 1
                ELSE CHOOSE x \in slashes : \A y \in slashes : x <= y
           head == SubSeq(s, 1, j - 1)
           rest == SubSeq(s, j + 1, Len(s))
       IN  IF head = <<>> THEN Components(rest) ELSE <<head>> \o Components(rest)

TrailingSlash(s) == s # <<>> /\ s[Len(s)] = "/"

\* the paths kk_os_ensure_dir is called with
PathABC == <<"a", "/", "b", "/", "c">>
EdPaths ==
  {PathABC, <<"/", "a", "/", "b">>, <<"a", "/", "b", "/">>, <<"a", "\\", "b">>}

NodesOf(path) ==
  {SubSeq(Components(path), 1, n) : n \in 1..Len(Components(path))}

Nodes == UNION {NodesOf(path) : path \in EdPaths}

Kinds == {"none", "dir", "reg", "blk"}

\* st_mode of a node of the kind
KindMode(kind) ==
  CASE kind = "dir" -> S_IFDIR + 493
    [] kind = "reg" -> S_IFREG + 420
    [] kind = "blk" -> S_IFBLK + 432
    [] kind = "sock" -> S_IFSOCK + 493

Parent(node) == SubSeq(node, 1, Len(node) - 1)

EmptyTree == [n \in Nodes |-> "none"]

\* every node that exists lies in a directory
TreeOk(tr) == \A n \in Nodes : (tr[n] # "none" /\ Len(n) > 1) => tr[Parent(n)] = "dir"

\* errno of a failed walk to the node, 0 if every directory on the way is one
WalkErr(tr, node) ==
  LET bad == {n \in 1..(Len(node) - 1) : tr[SubSeq(node, 1, n)] # "dir"}
  IN  IF bad = {} THEN 0
      ELSE LET n == CHOOSE x \in bad : \A y \in bad : x <= y
           IN  IF tr[SubSeq(node, 1, n)] = "none" THEN ENOENT ELSE ENOTDIR

\* stat(2): [ret, e, mode]; mode is 0 on failure (the caller's st = { 0 })
OsStat(tr, path) ==
  LET node == Components(path)
      fail(e) == [ret |-> -1, e |-> e, mode |-> 0]
  IN  IF WalkErr(tr, node) # 0 THEN fail(WalkErr(tr, node))
      ELSE IF tr[node] = "none" THEN fail(ENOENT)
      ELSE IF TrailingSlash(path) /\ tr[node] # "dir" THEN fail(ENOTDIR)
      ELSE [ret |-> 0, e |-> 0, mode |-> KindMode(tr[node])]

\* mkdir(2): the set of [ret, e, tree]
OsMkdir(tr, path) ==
  LET node == Components(path)
      fail(e) == [ret |-> -1, e |-> e, tree |-> tr]
  IN  IF WalkErr(tr, node) # 0 THEN {fail(WalkErr(tr, node))}
      ELSE IF tr[node] = "dir" THEN {fail(EEXIST)}
      ELSE IF tr[node] # "none"
        THEN IF TrailingSlash(path) THEN {fail(EEXIST), fail(ENOTDIR)} ELSE {fail(EEXIST)}
      ELSE IF ro THEN {fail(EACCES)}
      ELSE {[ret |-> 0, e |-> 0, tree |-> [tr EXCEPT ![node] = "dir"]]}

RECURSIVE BitAnd(_, _)
\* a & b
BitAnd(a, b) ==
  IF a = 0 \/ b = 0 THEN 0
  ELSE (a % 2) * (b % 2) + 2 * BitAnd(a \div 2, b \div 2)

(***************************************************************************)
(* kk_os_ensure_dir, called by each thread: ed[t].pc is "stat" or "mkdir"  *)
(* while the walk stands at the separator ed[t].i of the path (the prefix  *)
(* is the characters before it), "done" after the return.  Of a call the   *)
(* frame also records: created, the nodes its mkdir calls created; tree0   *)
(* and tree1, the tree at its begin and at its return; solo, whether no    *)
(* call of another thread ran meanwhile; race, whether a call of another   *)
(* thread on the same path ran meanwhile; again, whether it repeats the    *)
(* thread's previous call, which ran alone on the empty tree, on the tree  *)
(* that call left.                                                         *)
(***************************************************************************)
EdIdle == [pc |-> "idle", n |-> 0]

OnlyEnd(c) == c = NUL

\* if (c == 0 || c == '/' || c == '\\')
IsSep(c) == c = NUL \/ c = "/" \/ c = "\\"

\* cpath[0] != 0, after *p = 0 at position i
HasPrefix(path, i) == (IF i = 1 THEN NUL ELSE CharAt(path, 1)) # NUL

\* the next position after i at which the loop calls stat, 0 if it ends before
NextStop(path, i) ==
  LET stops == {j \in (i + 1)..(Len(path) + 1) :
                  IsSep(CharAt(path, j)) /\ HasPrefix(path, j)}
  IN  IF stops = {} THEN 0 ELSE CHOOSE x \in stops : \A y \in stops : x <= y

\* bool isdir = ((st.st_mode & S_IFDIR) != 0)
IsDir(mode) == BitAnd(mode, S_IFDIR) # 0

MkdirFailedAny(res, e) == res # 0

\* if (res != 0 && errno != EEXIST)
MkdirFailed(res, e) == res # 0 /\ e # EEXIST

Running(f) == f.pc \in {"stat", "mkdir"}

EdContinueAfterError(f, tr) ==
  IF NextStop(f.path, f.i) # 0
  THEN [f EXCEPT !.pc = "stat", !.i = NextStop(f.path, f.i)]
  ELSE [f EXCEPT !.pc = "done", !.tree1 = tr]

\* } while (err == 0 && *p++ != 0); ... return err;
EdContinue(f, tr) ==
  IF f.err = 0 /\ NextStop(f.path, f.i) # 0
  THEN [f EXCEPT !.pc = "stat", !.i = NextStop(f.path, f.i)]
  ELSE [f EXCEPT !.pc = "done", !.tree1 = tr]

\* the call kk_os_ensure_dir(path, -1), up to the first stat
EdCall(t, path) ==
  /\ ~Running(ed[t])
  /\ ed[t].n < MaxCalls
  /\ LET others == {u \in Threads \ {t} : Running(ed[u])}
         f == [pc |-> "stat", n |-> ed[t].n + 1, path |-> path, i |-> 0, err |-> 0,
               created |-> {}, tree0 |-> tree, tree1 |-> tree,
               visited |-> <<>>, failedAt |-> 0, failErr |-> 0,
               solo |-> others = {},
               race |-> \E u \in others : ed[u].path = path,
               again |-> /\ ed[t].pc = "done" /\ ed[t].path = path /\ ed[t].solo
                         /\ ed[t].tree0 = EmptyTree /\ ed[t].tree1 = tree]
     IN  ed' = [u \in Threads |->
                  IF u = t THEN EdContinue(f, tree)
                  ELSE IF u \in others
                    THEN [ed[u] EXCEPT !.solo = FALSE, !.race = @ \/ ed[u].path = path]
                  ELSE ed[u]]
  /\ UNCHANGED <<errno, tree, ro>>
  /\ UNCHANGED <<fileVars, listVars, pathVars>>

\* stat(cpath, &st); isdir = ...; if (!isdir) ..
\* visited keeps the positions at which the loop called stat
EdStat(t) ==
  /\ ed[t].pc = "stat"
  /\ LET f == ed[t]
         st == OsStat(tree, SubSeq(f.path, 1, f.i - 1))
     IN  /\ errno' = IF st.ret # 0 THEN [errno EXCEPT ![t] = st.e] ELSE errno
         /\ ed' = [ed EXCEPT ![t] =
                LET g == [f EXCEPT !.visited = Append(@, f.i)]
                IN  IF IsDir(st.mode) THEN EdContinue(g, tree)
                    ELSE [g EXCEPT !.pc = "mkdir"]]
  /\ UNCHANGED <<tree, ro>>
  /\ UNCHANGED <<fileVars, listVars, pathVars>>

\* int res = mkdir(cpath, mode); if (res != 0 && errno != EEXIST) err = errno;
\* failedAt and failErr keep where and how a mkdir failed other than with EEXIST
EdMkdir(t) ==
  /\ ed[t].pc = "mkdir"
  /\ LET f == ed[t]
         prefix == SubSeq(f.path, 1, f.i - 1)
     IN  \E o \in OsMkdir(tree, prefix) :
           /\ errno' = IF o.ret # 0 THEN [errno EXCEPT ![t] = o.e] ELSE errno
           /\ tree' = o.tree
           /\ ed' = [ed EXCEPT ![t] =
                EdContinue([f EXCEPT
                    !.err = IF MkdirFailed(o.ret, errno'[t]) THEN errno'[t] ELSE 0,
                    !.failedAt = IF o.ret # 0 /\ o.e # EEXIST THEN f.i ELSE @,
                    !.failErr = IF o.ret # 0 /\ o.e # EEXIST THEN o.e ELSE @,
                    !.created = IF o.ret = 0 THEN @ \cup {Components(prefix)} ELSE @],
                  o.tree)]
  /\ UNCHANGED ro
  /\ UNCHANGED <<fileVars, listVars, pathVars>>

(***************************************************************************)
(* The files that path resolution sees: stat(2) and realpath(3).           *)
(* The directories /x and /y and the working directory / exist; t may      *)
(* exist in each of them, as a regular file, a socket, or (in /x) a        *)
(* symbolic link to /y/t.  Both calls follow symbolic links and skip ".".  *)
(***************************************************************************)
NameX == <<"x">>
NameY == <<"y">>
NameT == <<"t">>
NameDot == <<".">>

PNodes == {<<NameX>>, <<NameY>>, <<NameX, NameT>>, <<NameY, NameT>>, <<NameT>>}

LinkTarget == <<NameY, NameT>>

PKind(fs, node) ==
  IF node = <<>> THEN "dir" ELSE IF node \in PNodes THEN fs[node] ELSE "none"

NoFiles ==
  [n \in PNodes |-> IF n \in {<<NameX>>, <<NameY>>} THEN "dir" ELSE "none"]

\* the file trees: t in /x, in /y and in /
FileTrees ==
  {fs \in [PNodes -> {"none", "dir", "reg", "sock", "lnk"}] :
     /\ fs[<<NameX>>] = "dir" /\ fs[<<NameY>>] = "dir"
     /\ fs[<<NameX, NameT>>] \in {"none", "reg", "sock", "lnk"}
     /\ fs[<<NameY, NameT>>] \in {"none", "reg"}
     /\ fs[<<NameT>>] \in {"none", "reg"}}

RECURSIVE Walk(_, _, _)
\* the walk from the directory node along the names: [e, node]
Walk(fs, node, names) ==
  IF names = <<>> THEN [e |-> 0, node |-> node]
  ELSE IF Head(names) = NameDot THEN Walk(fs, node, Tail(names))
  ELSE LET next == Append(node, Head(names))
           kind == PKind(fs, next)
       IN  IF kind = "none" THEN [e |-> ENOENT, node |-> next]
           ELSE IF kind = "lnk" THEN Walk(fs, <<>>, LinkTarget \o Tail(names))
           ELSE IF Tail(names) # <<>> /\ kind # "dir" THEN [e |-> ENOTDIR, node |-> next]
           ELSE Walk(fs, next, Tail(names))

\* the node a path names: [e, node], e = 0 if there is one
Resolve(fs, path) ==
  IF path = <<>> THEN [e |-> ENOENT, node |-> <<>>]
  ELSE LET r == Walk(fs, <<>>, Components(path))
       IN  IF r.e = 0 /\ TrailingSlash(path) /\ PKind(fs, r.node) # "dir"
           THEN [e |-> ENOTDIR, node |-> r.node] ELSE r

RECURSIVE PathOf(_)
\* the canonical absolute path of a node
PathOf(node) ==
  IF node = <<>> THEN <<"/">>
  ELSE IF Len(node) = 1 THEN <<"/">> \o node[1]
  ELSE PathOf(Parent(node)) \o <<"/">> \o node[Len(node)]

\* stat(2) by path: [ret, e, mode]
OsStatPath(fs, path) ==
  LET r == Resolve(fs, path)
  IN  IF r.e # 0 THEN [ret |-> -1, e |-> r.e, mode |-> 0]
      ELSE [ret |-> 0, e |-> 0, mode |-> KindMode(PKind(fs, r.node))]

\* realpath(3): [ok, e, rpath]
OsRealpath(fs, path) ==
  LET r == Resolve(fs, path)
  IN  IF r.e # 0 THEN [ok |-> FALSE, e |-> r.e, rpath |-> <<>>]
      ELSE [ok |-> TRUE, e |-> 0, rpath |-> PathOf(r.node)]

(***************************************************************************)
(* kk_posix_stat, kk_os_is_file, kk_os_realpath, kk_os_searchpathx and     *)
(* kk_os_app_path_generic.  ps.pc: "probe" while the search stands at      *)
(* offset ps.p of PATH, "fallback" and "realpath" before the last          *)
(* realpath, "done" after the return.  ps.probes are the candidates        *)
(* probed, in order.                                                       *)
(***************************************************************************)
PsIdle == [pc |-> "idle"]

\* a NULL char*
NullStr == <<"NULL">>

\* KK_PATH_SEP
KK_PATH_SEP == ":"

\* if (stat(cpath, st) < 0) err = errno;
kk_posix_stat(fs, path) ==
  LET st == OsStatPath(fs, path)
  IN  [err |-> IF st.ret < 0 THEN st.e ELSE 0, mode |-> st.mode]

\* return ((st.st_mode & S_IFREG) != 0)
HasRegBit(mode) == BitAnd(mode, S_IFREG) # 0

\* kk_os_is_file
kk_os_is_file(fs, path) ==
  LET st == kk_posix_stat(fs, path)
  IN  IF st.err # 0 THEN FALSE ELSE HasRegBit(st.mode)

RealpathOrEmpty(fs, path) == OsRealpath(fs, path).rpath

\* (rpath != NULL ? rpath : cpath)
kk_os_realpath(fs, path) ==
  LET r == OsRealpath(fs, path) IN IF r.ok THEN r.rpath ELSE path

\* errno after kk_os_is_file(path) and, if it found a file, kk_os_realpath(path)
ErrnoAfterProbe(fs, path) ==
  LET st == OsStatPath(fs, path)
  IN  IF st.ret < 0 THEN [errno EXCEPT ![Main] = st.e] ELSE errno

\* const char* r = strchr(p, KK_PATH_SEP); if (r==NULL) r = pend;
SegmentEnd(paths, p) ==
  LET seps == {j \in p..Len(paths) : paths[j] = KK_PATH_SEP}
  IN  IF seps = {} THEN Len(paths) + 1 ELSE CHOOSE x \in seps : \A y \in seps : x <= y

PsDone(f, result) == [f EXCEPT !.pc = "done", !.result = result]

NeverAbsolute(p) == FALSE

\* if (p[0]=='/')
IsAbsolute(p) == p[1] = "/"

\* kk_os_app_path_generic up to its first call of the OS; kk_os_searchpathx's entry
AppPathCall ==
  /\ ps.pc = "call"
  /\ LET a == ps.argv0
     IN  IF a = NullStr \/ Len(a) = 0 THEN ps' = PsDone(ps, <<>>)
         ELSE IF IsAbsolute(a) THEN ps' = [ps EXCEPT !.pc = "realpath", !.arg = a]
         ELSE IF \E j \in 1..Len(a) : a[j] = "/"
           THEN ps' = [ps EXCEPT !.pc = "realpath", !.arg = <<".", "/">> \o a]
         ELSE IF ps.paths = NullStr
           THEN ps' = [ps EXCEPT !.pc = "fallback"]
         ELSE ps' = [ps EXCEPT !.pc = "probe", !.p = 1]
  /\ UNCHANGED <<errno, pfs>>
  /\ UNCHANGED <<fileVars, listVars, dirVars>>

\* one round of while (p < pend): the candidate, kk_os_is_file, kk_os_realpath;
\* oscalls counts the stat and realpath calls of the run
SearchProbe ==
  /\ ps.pc = "probe"
  /\ IF ps.p > Len(ps.paths)
     THEN /\ ps' = [ps EXCEPT !.pc = "fallback"]
          /\ UNCHANGED errno
     ELSE LET r == SegmentEnd(ps.paths, ps.p)
              pend == Len(ps.paths) + 1
              sfname == SubSeq(ps.paths, ps.p, r - 1) \o <<"/">> \o ps.argv0
              f == [ps EXCEPT !.p = IF r = pend THEN r ELSE r + 1,
                              !.probes = Append(@, sfname),
                              !.oscalls = @ + (IF kk_os_is_file(pfs, sfname) THEN 2 ELSE 1)]
          IN  /\ errno' = ErrnoAfterProbe(pfs, sfname)
              /\ ps' = IF kk_os_is_file(pfs, sfname)
                       THEN PsDone(f, kk_os_realpath(pfs, sfname))
                       ELSE f
  /\ UNCHANGED pfs
  /\ UNCHANGED <<fileVars, listVars, dirVars>>

\* if (kk_string_is_empty_borrow(s)) s = kk_os_realpath(p)
SearchFallback ==
  /\ ps.pc = "fallback"
  /\ ps' = PsDone([ps EXCEPT !.oscalls = @ + 1], kk_os_realpath(pfs, ps.argv0))
  /\ errno' = LET r == OsRealpath(pfs, ps.argv0)
              IN  IF r.ok THEN errno ELSE [errno EXCEPT ![Main] = r.e]
  /\ UNCHANGED pfs
  /\ UNCHANGED <<fileVars, listVars, dirVars>>

\* return kk_os_realpath(..), of an absolute path or of "./" and a relative path
AppPathRealpath ==
  /\ ps.pc = "realpath"
  /\ ps' = PsDone([ps EXCEPT !.oscalls = @ + 1], kk_os_realpath(pfs, ps.arg))
  /\ errno' = LET r == OsRealpath(pfs, ps.arg)
              IN  IF r.ok THEN errno ELSE [errno EXCEPT ![Main] = r.e]
  /\ UNCHANGED pfs
  /\ UNCHANGED <<fileVars, listVars, dirVars>>

(***************************************************************************)
(* kk_os_app_path: the variant of the build (platform) asks the OS for the *)
(* path of the executable and falls back on kk_os_app_path_generic.        *)
(* ps.direct is what the OS answers: len, the result of GetModuleFileNameW *)
(* (WIN32), of proc_pidpath (__MACH__), or the length of the path that     *)
(* realpath finds for KK_PROC_SELF (0: it fails); len2, the result of the  *)
(* second GetModuleFileNameW.  ps.generic tells whether                    *)
(* kk_os_app_path_generic was called.                                      *)
(***************************************************************************)
AppPlatforms == {"win32", "mach", "proc", "generic"}

\* the path of the executable, as the OS reports it
DirectExe == <<"/", "o", "p", "t", "/", "t">>

ExeLen == Len(DirectExe)

\* uint16_t buf[264]
WinBuf == 264

\* kk_os_path_max() of the WIN32 variant
WinPathMax == 32 * 1024

\* #define KK_PROC_SELF "/proc/self/exe"
KK_PROC_SELF == <<"/proc/self/exe">>

\* what a buffer holds that the OS call did not fill
GarbageStrings == {<<>>, <<Uninit>>}

\* what the OS may answer, by variant
Directs ==
  CASE platform = "win32" ->
         {[len |-> l, len2 |-> 0] : l \in {0, ExeLen}}
           \cup {[len |-> WinBuf, len2 |-> l] : l \in {0, WinBuf + 1, WinPathMax}}
    [] platform = "generic" -> {[len |-> 0, len2 |-> 0]}
    [] OTHER -> {[len |-> l, len2 |-> 0] : l \in {0, ExeLen}}

\* kk_os_realpath(KK_PROC_SELF): the path found, or the path given if realpath fails
RealpathProcSelf(d) == IF d.len > 0 THEN DirectExe ELSE KK_PROC_SELF

\* __MACH__: if (ret > 0) { // failed, use fall back
PidpathFailed(ret) == ret > 0

\* the frame after return kk_os_app_path_generic(ctx) was reached
ToGeneric == [ps EXCEPT !.pc = "call", !.generic = TRUE]

\* kk_os_app_path, up to its return or its call of kk_os_app_path_generic
AppPath ==
  /\ ps.pc = "app"
  /\ LET d == ps.direct
     IN  CASE platform = "win32" ->
                IF d.len = 0 THEN ps' = ToGeneric
                ELSE IF d.len < WinBuf THEN ps' = PsDone(ps, DirectExe)
                ELSE IF d.len2 >= WinPathMax THEN ps' = ToGeneric
                ELSE IF d.len2 = 0 THEN \E g \in GarbageStrings : ps' = PsDone(ps, g)
                ELSE ps' = PsDone(ps, DirectExe)
           [] platform = "mach" ->
                IF PidpathFailed(d.len) THEN ps' = ToGeneric
                ELSE \E g \in GarbageStrings : ps' = PsDone(ps, g)
           [] platform = "proc" ->
                IF RealpathProcSelf(d) = KK_PROC_SELF THEN ps' = ToGeneric
                ELSE ps' = PsDone(ps, RealpathProcSelf(d))
           [] OTHER -> ps' = ToGeneric
  /\ UNCHANGED <<errno, pfs>>
  /\ UNCHANGED <<fileVars, listVars, dirVars>>

(***************************************************************************)
(* SpecRetry: one call of a retry loop on a descriptor, for every          *)
(* requested length, descriptor state and sequence of OS outcomes.         *)
(***************************************************************************)
InitRetry ==
  /\ errno = [t \in Threads |-> 0]
  /\ hardFaults \in BOOLEAN
  /\ platform = "generic"
  /\ \E d \in Contents, m \in Modes :
       files = [p \in FilePaths |-> IF p = "p" THEN File(d, m) ELSE NoFile]
  /\ \E opened \in BOOLEAN :
       fdt = [StdFds EXCEPT ![3] = IF opened THEN OpenFd("p", TRUE, TRUE) ELSE Closed]
  /\ \E kind \in {"read", "write"}, f \in {2, 3}, buf \in Contents :
       rt = IF kind = "read" THEN RtCall("read", f, <<>>, Len(buf))
            ELSE RtCall("write", f, buf, Len(buf))
  /\ io = IoIdle
  /\ hist = <<>>
  /\ tree = EmptyTree /\ ro = FALSE /\ ed = [t \in Threads |-> EdIdle]
  /\ pfs = NoFiles /\ ps = PsIdle
  /\ ds = DsIdle /\ ls = LsIdle

NextRetry == ReadRetryStep \/ WriteRetryStep

SpecRetry == InitRetry /\ [][NextRetry]_vars

\* the loops run whenever they can: the calling thread is never suspended forever
SpecRetryFair == SpecRetry /\ WF_vars(NextRetry)

(***************************************************************************)
(* SpecText: up to MaxCalls calls of kk_os_read_text_file and              *)
(* kk_os_write_text_file, one after the other, from every file system.     *)
(***************************************************************************)
InitText ==
  /\ errno = [t \in Threads |-> 0]
  /\ hardFaults \in BOOLEAN
  /\ platform = "generic"
  /\ \E pf \in {NoFile} \cup {File(d, m) : d \in Contents, m \in Modes} :
       files = [p \in FilePaths |-> IF p = "p" THEN pf ELSE NoFile]
  /\ fdt = StdFds
  /\ rt = RtIdle
  /\ io = IoIdle
  /\ hist = <<>>
  /\ tree = EmptyTree /\ ro = FALSE /\ ed = [t \in Threads |-> EdIdle]
  /\ pfs = NoFiles /\ ps = PsIdle
  /\ ds = DsIdle /\ ls = LsIdle

NextText ==
  \/ TextCall
  \/ ReadOpen \/ ReadFsize \/ ReadFinish \/ FileShrinks
  \/ WriteOpen \/ WriteFinish
  \/ ReadRetryStep \/ WriteRetryStep

SpecText == InitText /\ [][NextText]_vars

(***************************************************************************)
(* SpecCopy: one call of kk_os_copy_file, in every build variant, from     *)
(* every file system.                                                      *)
(***************************************************************************)
InitCopy ==
  /\ errno = [t \in Threads |-> 0]
  /\ hardFaults \in BOOLEAN
  /\ platform \in Platforms
  /\ files \in [FilePaths -> {NoFile} \cup {File(d, m) : d \in Contents, m \in Modes}]
  /\ fdt = StdFds
  /\ rt = RtIdle
  /\ io = IoIdle
  /\ hist = <<>>
  /\ tree = EmptyTree /\ ro = FALSE /\ ed = [t \in Threads |-> EdIdle]
  /\ pfs = NoFiles /\ ps = PsIdle
  /\ ds = DsIdle /\ ls = LsIdle

NextCopy ==
  \/ CopyCall \/ CopyOpen \/ CopyStat \/ CopyCreat
  \/ CopyFcopyfile \/ CopySendfile \/ CopyFileRange
  \/ CopyBuf \/ CopyAfterRead \/ CopyAfterWrite
  \/ CopyClose
  \/ ReadRetryStep \/ WriteRetryStep

SpecCopy == InitCopy /\ [][NextCopy]_vars

(***************************************************************************)
(* SpecList: one call of kk_os_list_directory, for every directory stream  *)
(* of up to MaxEntries entries and every value earlier calls left in       *)
(* errno.                                                                  *)
(***************************************************************************)
StaleErrnos == {0, ENOENT, EEXIST}

InitList ==
  /\ errno \in [Threads -> StaleErrnos]
  /\ errno["t2"] = 0
  /\ hardFaults = FALSE
  /\ platform = "generic"
  /\ files = [p \in FilePaths |-> NoFile]
  /\ fdt = StdFds
  /\ rt = RtIdle
  /\ io = IoIdle
  /\ hist = <<>>
  /\ tree = EmptyTree /\ ro = FALSE /\ ed = [t \in Threads |-> EdIdle]
  /\ pfs = NoFiles /\ ps = PsIdle
  /\ \E e \in {0, ENOENT, EACCES} :
       ds = [openErr |-> e, open |-> FALSE, closes |-> 0, k |-> 0,
             dot |-> FALSE, dotdot |-> FALSE, ended |-> FALSE, failed |-> 0]
  /\ ls = [pc |-> "findfirst"]

NextList ==
  ListFindFirst \/ ListName \/ ListGrow \/ ListWrite \/ ListNext \/ ListClose

SpecList == InitList /\ [][NextList]_vars

(***************************************************************************)
(* SpecDir: the threads call kk_os_ensure_dir, each up to MaxCalls times,  *)
(* on every tree of directories, regular files and block devices.          *)
(***************************************************************************)
InitDir ==
  /\ errno = [t \in Threads |-> 0]
  /\ hardFaults = FALSE
  /\ platform = "generic"
  /\ files = [p \in FilePaths |-> NoFile]
  /\ fdt = StdFds
  /\ rt = RtIdle
  /\ io = IoIdle
  /\ hist = <<>>
  /\ ds = DsIdle /\ ls = LsIdle
  /\ tree \in {tr \in [Nodes -> Kinds] : TreeOk(tr) /\ tr[<<(<<"a", "\\", "b">>)>>] = "none"}
  /\ ro \in BOOLEAN
  /\ ed = [t \in Threads |-> EdIdle]
  /\ pfs = NoFiles /\ ps = PsIdle

\* the environment: the file system becomes read-only while a call that has
\* created a directory is about to look at its next prefix
BecomesReadOnly ==
  /\ ~ro
  /\ \E t \in Threads : ed[t].pc = "stat" /\ ed[t].created # {}
  /\ ro' = TRUE
  /\ UNCHANGED <<errno, tree, ed>>
  /\ UNCHANGED <<fileVars, listVars, pathVars>>

NextDir ==
  \/ \E t \in Threads, path \in EdPaths : EdCall(t, path)
  \/ \E t \in Threads : EdStat(t)
  \/ \E t \in Threads : EdMkdir(t)
  \/ BecomesReadOnly

SpecDir == InitDir /\ [][NextDir]_vars

(***************************************************************************)
(* SpecPath: one call of kk_os_app_path_generic, for every argv[0] of      *)
(* Argv0s, every PATH of up to MaxPathLen characters (or none) and every   *)
(* file tree of FileTrees.                                                 *)
(***************************************************************************)
Argv0s ==
  {NullStr, <<>>, NameT, <<"/", "x", "/", "t">>, <<"x", "/", "t">>, <<"/", "y", "/", "/", "t">>}

PathValues == SeqsUpTo({"/", "x", "y", KK_PATH_SEP}, MaxPathLen) \cup {NullStr}

InitPath ==
  /\ errno = [t \in Threads |-> 0]
  /\ hardFaults = FALSE
  /\ platform = "generic"
  /\ files = [p \in FilePaths |-> NoFile]
  /\ fdt = StdFds
  /\ rt = RtIdle
  /\ io = IoIdle
  /\ hist = <<>>
  /\ ds = DsIdle /\ ls = LsIdle
  /\ tree = EmptyTree /\ ro = FALSE /\ ed = [t \in Threads |-> EdIdle]
  /\ pfs \in FileTrees
  /\ \E a \in Argv0s, v \in PathValues :
       /\ a # NameT => v = NullStr
       /\ ps = [pc |-> "call", argv0 |-> a, paths |-> v, p |-> 0, arg |-> <<>>,
                probes |-> <<>>, result |-> <<>>, oscalls |-> 0]

NextPath == AppPathCall \/ SearchProbe \/ SearchFallback \/ AppPathRealpath

SpecPath == InitPath /\ [][NextPath]_vars

(***************************************************************************)
(* SpecApp: one call of kk_os_app_path, in every variant, for every answer *)
(* of the OS, every argv[0] of Argv0s and every file tree of FileTrees.    *)
(***************************************************************************)
AppPathValues == {NullStr, <<"/", "x", KK_PATH_SEP, "/", "y">>}

InitApp ==
  /\ errno = [t \in Threads |-> 0]
  /\ hardFaults = FALSE
  /\ platform \in AppPlatforms
  /\ files = [p \in FilePaths |-> NoFile]
  /\ fdt = StdFds
  /\ rt = RtIdle
  /\ io = IoIdle
  /\ hist = <<>>
  /\ ds = DsIdle /\ ls = LsIdle
  /\ tree = EmptyTree /\ ro = FALSE /\ ed = [t \in Threads |-> EdIdle]
  /\ pfs \in FileTrees
  /\ \E a \in Argv0s, v \in AppPathValues, d \in Directs :
       ps = [pc |-> "app", argv0 |-> a, paths |-> v, p |-> 0, arg |-> <<>>,
             probes |-> <<>>, result |-> <<>>, oscalls |-> 0,
             direct |-> d, generic |-> FALSE]

NextApp == AppPath \/ NextPath

SpecApp == InitApp /\ [][NextApp]_vars

(***************************************************************************)
(* C4: under every sequence of OS outcomes with at most MaxTransient       *)
(* transient failures in a row, both retry loops return; the write loop    *)
(* returns with ofs = len or a non-retryable error, the read loop with     *)
(* ofs <= buflen, and ofs < buflen only after a read of 0 bytes or a       *)
(* non-retryable error.                                                    *)
(***************************************************************************)
RetryEnd ==
  /\ rt.pc = "ret"
  /\ rt.err \notin {EAGAIN, EINTR}
  /\ rt.kind = "write" => (rt.ofs = rt.buflen \/ rt.err # 0)
  /\ rt.kind = "read" => /\ rt.ofs <= rt.buflen
                         /\ rt.ofs < rt.buflen => (rt.n = 0 \/ rt.err # 0)

RetryTerminates == <>RetryEnd

\* a read that was retried after a transient failure and then met the end of input
RetryTerminatesWitness ==
  /\ rt.pc = "ret" /\ rt.kind = "read" /\ rt.retried
  /\ rt.ofs >= 1 /\ rt.ofs < rt.buflen /\ rt.n = 0 /\ rt.err = 0

(***************************************************************************)
(* C5 as stated: for every requested length, 0 included, the write loop    *)
(* returns Ok if and only if the written count equals the length.          *)
(***************************************************************************)
WriteOkIffCompleteAnyLength ==
  (rt.pc = "ret" /\ rt.kind = "write") => (rt.err = 0 <=> rt.ofs = rt.buflen)

(***************************************************************************)
(* C5 amended: for every requested length the write loop returns Ok only   *)
(* if the written count equals the length, and for every length of at      *)
(* least 1 it returns Ok if the written count equals the length.           *)
(***************************************************************************)
WriteOkIffComplete ==
  (rt.pc = "ret" /\ rt.kind = "write") =>
    /\ rt.err = 0 => rt.ofs = rt.buflen
    /\ (rt.buflen >= 1 /\ rt.ofs = rt.buflen) => rt.err = 0

\* a write of two bytes that completed, one byte at a time, after a retry
WriteOkIffCompleteWitness ==
  /\ rt.pc = "ret" /\ rt.kind = "write" /\ rt.retried /\ Fd(rt.fd).obj = "p"
  /\ rt.buflen >= 2 /\ rt.ofs = rt.buflen /\ rt.err = 0
  /\ Fd(rt.fd).pos = rt.buflen /\ SubSeq(files["p"].data, 1, rt.buflen) = rt.buf

(***************************************************************************)
(* C1: a write of any contents c to a path that does not exist returns Ok, *)
(* and a read of that path that follows it returns Ok with the contents c  *)
(* (no device fails with EIO).                                             *)
(***************************************************************************)
RoundTrip ==
  \A i \in 1..Len(hist) :
    (hist[i].op = "write" /\ hist[i].fresh /\ ~hardFaults) =>
      /\ hist[i].status = 0
      /\ (i < Len(hist) /\ hist[i + 1].op = "read" /\ hist[i + 1].path = hist[i].path) =>
           /\ hist[i + 1].status = 0
           /\ hist[i + 1].result = Result(hist[i].content)

(***************************************************************************)
(* C2: a copy from a source path that does not exist returns ENOENT, never *)
(* issues the create call of the destination and leaves the files as they  *)
(* were.                                                                   *)
(***************************************************************************)
CopyMissingSource ==
  \A i \in 1..Len(hist) :
    (hist[i].op = "copy" /\ ~hist[i].files0[hist[i].path].exists) =>
      /\ hist[i].status = ENOENT
      /\ ~hist[i].creat
      /\ files = hist[i].files0

(***************************************************************************)
(* C3: whenever a copy of a non-empty source to another path returns Ok,   *)
(* the destination holds exactly the bytes the source held and the create  *)
(* call was given the source's permission bits, also when the kernel copy  *)
(* moved fewer bytes than it was asked for.                                *)
(***************************************************************************)
CopyReproduces ==
  \A i \in 1..Len(hist) :
    LET h == hist[i]
    IN  (/\ h.op = "copy" /\ h.status = 0 /\ h.path # h.to
         /\ h.files0[h.path].exists /\ Len(h.files0[h.path].data) > 0) =>
          /\ files[h.to].exists
          /\ files[h.to].data = h.files0[h.path].data
          /\ h.creat /\ Perm(h.creatMode) = h.files0[h.path].mode

(***************************************************************************)
(* C6: when the stream yielded "." and "..", K other entries and then its  *)
(* end (no readdir failed), kk_os_list_directory returns Ok and exactly    *)
(* the K names, in the order of the stream, once each, without "." and     *)
(* ".."; for K = 0 the empty vector.                                       *)
(***************************************************************************)
ListsEntries ==
  (ls.pc = "done" /\ ds.ended /\ ds.dot /\ ds.dotdot) =>
    /\ ls.status = 0
    /\ ls.names = [i \in 1..ds.k |-> kk_string_box(Entry(i))]

(***************************************************************************)
(* C7: at every write of an entry the count is strictly below the capacity *)
(* of the vector, and the vector returned has exactly as many elements as  *)
(* names were produced, below, at and above every growth of the capacity.  *)
(***************************************************************************)
ListCapacity ==
  /\ ls.pc \in {"name", "push", "write", "next", "close"} =>
       /\ Len(ls.vec) = ls.len
       /\ ls.count <= ls.len
  /\ ls.pc = "write" => ls.count < ls.len
  /\ ls.pc = "done" => Len(ls.names) = ds.k

\* the write of entry 101, right after the capacity grew from 100 to 200
ListCapacityWitness ==
  /\ ls.pc = "write" /\ ls.count = InitialCapacity /\ ls.len = 2 * InitialCapacity
  /\ ls.name = Entry(InitialCapacity + 1)

(***************************************************************************)
(* C8: a call of kk_os_ensure_dir("a/b/c") that runs alone on the empty,   *)
(* writable tree creates exactly the directories a, a/b and a/b/c and      *)
(* returns Ok; the same call made again on the tree it left creates        *)
(* nothing, leaves the tree as it is and returns Ok.                       *)
(***************************************************************************)
EnsureDirNested ==
  \A t \in Threads :
    LET f == ed[t]
    IN  (f.pc = "done" /\ f.path = PathABC /\ f.solo /\ ~ro) =>
          /\ f.tree0 = EmptyTree =>
               /\ f.err = 0
               /\ f.created = NodesOf(PathABC)
               /\ f.tree1 = [n \in Nodes |-> IF n \in NodesOf(PathABC) THEN "dir" ELSE "none"]
          /\ f.again =>
               /\ f.err = 0
               /\ f.created = {}
               /\ f.tree1 = f.tree0

\* the second of the two calls has returned
EnsureDirNestedWitness ==
  \E t \in Threads :
    /\ ed[t].pc = "done" /\ ed[t].path = PathABC /\ ed[t].solo /\ ed[t].again
    /\ ed[t].n = 2 /\ ed[t].err = 0 /\ ~ro
    /\ \A n \in NodesOf(PathABC) : tree[n] = "dir"

(***************************************************************************)
(* C9: when two calls of kk_os_ensure_dir on the same path run             *)
(* concurrently on a writable tree in which every prefix of the path is    *)
(* absent or a directory, then under every interleaving of their stat and  *)
(* mkdir calls each of them returns Ok, and every prefix is a directory    *)
(* when it returns and from then on.                                       *)
(***************************************************************************)
Unobstructed(tr, path) == \A n \in NodesOf(path) : tr[n] \in {"none", "dir"}

EnsureDirRace ==
  \A t \in Threads :
    LET f == ed[t]
    IN  (f.pc = "done" /\ f.race /\ ~ro /\ Unobstructed(f.tree0, f.path)) =>
          /\ f.err = 0
          /\ \A n \in NodesOf(f.path) : f.tree1[n] = "dir" /\ tree[n] = "dir"

\* both calls have returned; each created a directory, and the mkdir of "t2" lost a race
EnsureDirRaceWitness ==
  /\ \A t \in Threads :
       /\ ed[t].pc = "done" /\ ed[t].race /\ ed[t].path = PathABC
       /\ ed[t].tree0 = EmptyTree /\ ed[t].created # {} /\ ed[t].err = 0
  /\ errno["t2"] = EEXIST
  /\ ~ro

(***************************************************************************)
(* C10: the search for a bare name over PATH probes the candidates         *)
(* segment/name in the order of the list and returns the canonical path of *)
(* the first candidate that is a regular file, without probing a later     *)
(* segment; when no candidate is a regular file, it returns the canonical  *)
(* path of the bare name.                                                  *)
(***************************************************************************)
RECURSIVE Segments(_)
\* the segments of a separator-delimited list (an empty piece after the last
\* separator is no segment)
Segments(s) ==
  IF s = <<>> THEN <<>>
  ELSE LET r == SegmentEnd(s, 1)
       IN  <<SubSeq(s, 1, r - 1)>> \o Segments(SubSeq(s, r + 1, Len(s)))

\* the file type of the mode is that of a regular file
IsRegMode(mode) == (mode \div 4096) * 4096 = S_IFREG

IsRegularFile(fs, path) ==
  LET st == OsStatPath(fs, path) IN st.ret = 0 /\ IsRegMode(st.mode)

SearchFirstRegular ==
  (ps.pc = "done" /\ ps.argv0 = NameT /\ ps.paths # NullStr) =>
    LET segs == Segments(ps.paths)
        cand == [i \in 1..Len(segs) |-> segs[i] \o <<"/">> \o ps.argv0]
        regs == {i \in 1..Len(segs) : IsRegularFile(pfs, cand[i])}
    IN  IF regs = {}
        THEN /\ ps.result = kk_os_realpath(pfs, ps.argv0)
             /\ ps.probes = cand
        ELSE LET i == CHOOSE x \in regs : \A y \in regs : x <= y
             IN  /\ ps.result = kk_os_realpath(pfs, cand[i])
                 /\ ps.probes = SubSeq(cand, 1, i)

(***************************************************************************)
(* C11: kk_os_read_text_file, kk_os_write_text_file and kk_os_copy_file    *)
(* only operate on descriptors they opened themselves (the descriptor a    *)
(* call holds is open on the file of its path, never a standard stream),   *)
(* and when a call has returned every descriptor it opened is closed and   *)
(* no other descriptor was closed.                                         *)
(***************************************************************************)
OwnFd(f, path) == f \in DOMAIN fdt /\ f > 2 /\ fdt[f].open /\ fdt[f].obj = path

CopyContentPcs == {"fcopyfile", "sendfile", "cfr", "cbuf", "cread", "cwrite", "cclose"}

OwnDescriptorsOnly ==
  /\ io.pc \in {"fsize", "read", "wloop", "wend"} => OwnFd(io.f, io.path)
  /\ io.pc \in {"cstat", "ccreat"} \cup CopyContentPcs => OwnFd(io.inp, io.path)
  /\ io.pc \in CopyContentPcs => OwnFd(io.out, io.to)
  /\ io.pc = "idle" => \A i \in DOMAIN fdt : fdt[i].open <=> i <= 2

(***************************************************************************)
(* C12: when kk_os_list_directory has returned, the directory handle, if   *)
(* opendir had opened it, is closed and was closed exactly once, also when *)
(* the first readdir already reported the end of the stream or failed.     *)
(***************************************************************************)
DirHandleClosedOnce ==
  ls.pc = "done" =>
    /\ ~ds.open
    /\ ds.closes = (IF ds.openErr = 0 THEN 1 ELSE 0)

(***************************************************************************)
(* C13: no status that the read loop, the write loop or the content copy   *)
(* of kk_os_copy_file returns is EINTR or EAGAIN, whatever the OS calls    *)
(* answer.                                                                 *)
(***************************************************************************)
NoTransientStatus ==
  /\ rt.pc = "ret" => rt.err \notin {EINTR, EAGAIN}
  /\ io.pc = "cclose" => io.err \notin {EINTR, EAGAIN}

(***************************************************************************)
(* C14: when readdir fails after n names were yielded (n = 0 included),    *)
(* kk_os_list_directory returns the error of that readdir as its status    *)
(* and a vector of exactly those n names, in the order of the stream.      *)
(***************************************************************************)
PartialListOnError ==
  (ls.pc = "done" /\ ds.failed # 0) =>
    /\ ls.status = ds.failed
    /\ ls.names = [i \in 1..ds.k |-> kk_string_box(Entry(i))]

\* readdir failed after "." and three names
PartialListOnErrorWitness ==
  /\ ls.pc = "done" /\ ds.failed = EIO /\ ds.k = 3 /\ ds.dot
  /\ ls.status = EIO /\ Len(ls.names) = 3

(***************************************************************************)
(* C15: when the read loop of kk_os_read_text_file met the end of the      *)
(* input after fewer bytes than kk_posix_fsize had answered, the call      *)
(* returns Ok and its result is exactly the bytes read, no more.           *)
(***************************************************************************)
ShortReadOk ==
  \A i \in 1..Len(hist) :
    LET h == hist[i]
    IN  (h.op = "read" /\ h.eof /\ Len(h.bytes) < h.len) =>
          /\ h.status = 0
          /\ h.result = Result(h.bytes)

\* a file of two bytes lost its second byte before it was read
ShortReadOkWitness ==
  \E i \in 1..Len(hist) :
    /\ hist[i].op = "read" /\ hist[i].eof /\ hist[i].len = 2
    /\ Len(hist[i].bytes) = 1 /\ hist[i].status = 0
    /\ hist[i].result = Result(hist[i].bytes)

(***************************************************************************)
(* C16: kk_os_realpath never reports an error: when realpath fails, its    *)
(* result is the path it was given, unchanged; when realpath succeeds, its *)
(* result is the canonical absolute path of the node the path names.       *)
(* Stated for the paths kk_os_app_path_generic hands to it: an absolute    *)
(* argv[0], "./" and a relative argv[0], and a bare argv[0] without PATH.  *)
(***************************************************************************)
RealpathGiven ==
  IF ps.arg # <<>> THEN ps.arg ELSE ps.argv0

RealpathNeverFails ==
  (ps.pc = "done" /\ (ps.arg # <<>> \/ (ps.argv0 = NameT /\ ps.paths = NullStr))) =>
    LET r == Resolve(pfs, RealpathGiven)
    IN  /\ r.e # 0 => ps.result = RealpathGiven
        /\ r.e = 0 => ps.result = PathOf(r.node) /\ Resolve(pfs, ps.result) = r

\* realpath failed on "./x/t": the result is "./x/t"
RealpathNeverFailsWitness ==
  /\ ps.pc = "done" /\ ps.arg = <<".", "/", "x", "/", "t">>
  /\ Resolve(pfs, ps.arg).e = ENOENT
  /\ ps.result = ps.arg

(***************************************************************************)
(* C17: in every variant of kk_os_app_path the result is the path that the *)
(* direct mechanism reported exactly when the direct mechanism succeeded,  *)
(* and kk_os_app_path_generic is called exactly when it failed or the      *)
(* variant has none.                                                       *)
(***************************************************************************)
\* GetModuleFileNameW returns 0 on failure and the size given if the buffer is too
\* small; proc_pidpath returns the length of the path, 0 on failure
DirectSucceeded ==
  CASE platform = "win32" ->
         \/ 0 < ps.direct.len /\ ps.direct.len < WinBuf
         \/ ps.direct.len >= WinBuf /\ 0 < ps.direct.len2 /\ ps.direct.len2 < WinPathMax
    [] platform = "generic" -> FALSE
    [] OTHER -> ps.direct.len > 0

DirectFirst ==
  ps.pc = "done" =>
    /\ DirectSucceeded => ~ps.generic /\ ps.result = DirectExe
    /\ ~DirectSucceeded => ps.generic

(***************************************************************************)
(* C18: in kk_posix_read_retry the count reported never exceeds the length *)
(* requested; every read asks for at most what is left of the buffer and   *)
(* at most the chunk cap; and the count is below the length requested only *)
(* if a read returned zero (status Ok) or a non-retryable error is         *)
(* returned.                                                               *)
(***************************************************************************)
ReadBounded ==
  (rt.pc # "idle" /\ rt.kind = "read") =>
    /\ rt.ofs <= rt.buflen /\ Len(rt.buf) = rt.ofs
    /\ rt.req <= rt.rem /\ rt.req <= ChunkMax
    /\ (rt.pc = "ret" /\ rt.ofs < rt.buflen) =>
         \/ rt.n = 0 /\ rt.err = 0
         \/ rt.err # 0 /\ rt.err \notin {EINTR, EAGAIN}

\* a second read, after one byte and a retry, asked for the one byte left and met
\* the end of the file
ReadBoundedWitness ==
  /\ rt.pc = "ret" /\ rt.kind = "read"
  /\ rt.buflen = 2 /\ rt.ofs = 1 /\ rt.req = 1 /\ rt.rem = 1
  /\ rt.n = 0 /\ rt.err = 0 /\ rt.retried

(***************************************************************************)
(* C19: when the directory stream reports the end of its entries the       *)
(* status of kk_os_list_directory is Ok, whatever errno held before the    *)
(* call; the status is not Ok only when opendir or a readdir itself        *)
(* failed.                                                                 *)
(***************************************************************************)
EndOfEntriesIsOk ==
  ls.pc = "done" =>
    /\ (ds.openErr = 0 /\ ds.failed = 0 /\ ds.ended) => ls.status = 0
    /\ ls.status # 0 => (ds.openErr # 0 \/ ds.failed # 0)

(***************************************************************************)
(* C20: when opendir fails, kk_os_list_directory returns the error of      *)
(* opendir, which is not Ok, with an empty vector, and calls neither       *)
(* readdir nor closedir.                                                   *)
(***************************************************************************)
OpenFailureReturnsEmpty ==
  (ls.pc = "done" /\ ds.openErr # 0) =>
    /\ ls.status = ds.openErr /\ ls.status # 0
    /\ ls.names = <<>>
    /\ ~ds.open /\ ds.closes = 0
    /\ ds.k = 0 /\ ~ds.dot /\ ~ds.dotdot /\ ~ds.ended /\ ds.failed = 0

\* opendir failed with EACCES while errno held another value before the call
OpenFailureReturnsEmptyWitness ==
  /\ ls.pc = "done" /\ ds.openErr = EACCES /\ ls.status = EACCES
  /\ ls.names = <<>> /\ ds.closes = 0

(***************************************************************************)
(* C21: in kk_posix_copy_file with copy_file_range, the buffered loop is   *)
(* entered only when the copy_file_range loop ended with EINVAL and        *)
(* off_in = 0; with any other error, or an error after some bytes were     *)
(* copied, the error is the status of kk_posix_copy_file and the buffered  *)
(* loop does not run, so the bytes of one copy come from one strategy.     *)
(***************************************************************************)
RangeCopyFallback ==
  (io.pc # "idle" /\ platform = "generic_cfr") =>
    /\ io.buffered => (io.cfrErr = EINVAL /\ io.off = 0)
    /\ (io.pc = "cclose" /\ (io.cfrErr # EINVAL \/ io.off > 0)) =>
         (~io.buffered /\ io.err = io.cfrErr)

\* copy_file_range failed with EINVAL after it had copied a byte: the copy ends
\* with EINVAL and the buffered loop did not run
RangeCopyFallbackWitness ==
  /\ platform = "generic_cfr" /\ io.pc = "cclose"
  /\ io.cfrErr = EINVAL /\ io.off > 0 /\ io.err = EINVAL /\ ~io.buffered

(***************************************************************************)
(* C22: the buffered loop of kk_posix_copy_file asks each                  *)
(* kk_posix_read_retry for at most min(1 MiB, what is left of len), writes *)
(* all the bytes of a read before the next read, and returns 0 only when   *)
(* the bytes written add up to len.                                        *)
(***************************************************************************)
BufferedCopyComplete ==
  (io.pc # "idle" /\ io.buffered) =>
    /\ io.pc = "cread" => (rt.buflen <= io.todo /\ rt.buflen <= BufMax)
    /\ (io.pc = "cbuf" /\ io.rc > 0) => (rt.pc = "idle" /\ io.todo + io.rc <= io.size)
    /\ (io.pc = "cclose" /\ io.err = 0) => io.todo = 0

(***************************************************************************)
(* C23: when kk_os_copy_file returns after it closed both descriptors, its *)
(* status is the error recorded before the close calls if there was one,   *)
(* otherwise the error of closing the destination, otherwise Ok; whether   *)
(* closing the source failed does not change it.                           *)
(***************************************************************************)
CloseStatus ==
  \A i \in 1..Len(hist) :
    (hist[i].op = "copy" /\ hist[i].closed) =>
      hist[i].status = (IF hist[i].errBefore # 0 THEN hist[i].errBefore
                        ELSE hist[i].closeOut)

\* closing the source succeeded, closing the destination failed, and nothing
\* had failed before
CloseStatusWitness ==
  /\ Len(hist) = 1 /\ hist[1].op = "copy" /\ hist[1].closed
  /\ hist[1].errBefore = 0 /\ hist[1].closeInp = 0
  /\ hist[1].closeOut = EIO /\ hist[1].status = EIO

(***************************************************************************)
(* C24: kk_os_ensure_dir looks at the prefixes of the path from left to    *)
(* right, one per separator and one for the whole path; when a mkdir fails *)
(* with an error other than EEXIST the walk stops there (no later prefix   *)
(* gets a stat or a mkdir), that error is the status, and the directories  *)
(* the call created before are still there.                                *)
(***************************************************************************)
\* the positions of the separators and of the end of path that follow a non-empty prefix
StopsOf(path) ==
  {j \in 2..(Len(path) + 1) : j = Len(path) + 1 \/ path[j] \in {"/", "\\"}}

\* seq lists, in increasing order, the elements of set up to its last one
IsLeftToRight(seq, set) ==
  /\ \A k \in 1..Len(seq) : seq[k] \in set
  /\ \A k \in 1..(Len(seq) - 1) : seq[k] < seq[k + 1]
  /\ \A k \in 1..Len(seq) : \A j \in set : j < seq[k] => \E h \in 1..(k - 1) : seq[h] = j

EnsureDirStopsAtFailure ==
  \A t \in Threads :
    LET f == ed[t]
    IN  f.pc \in {"stat", "mkdir", "done"} =>
          /\ IsLeftToRight(f.visited, StopsOf(f.path))
          /\ (f.pc = "done" /\ f.failedAt = 0) =>
               (f.err = 0 /\ Len(f.visited) = Cardinality(StopsOf(f.path)))
          /\ f.failedAt # 0 =>
               /\ f.pc = "done"
               /\ f.err = f.failErr /\ f.err \notin {0, EEXIST}
               /\ f.visited[Len(f.visited)] = f.failedAt
               /\ \A n \in f.created : f.tree1[n] = "dir" /\ tree[n] = "dir"

\* the call created "a", the next mkdir failed, and "a/b/c" was never looked at
EnsureDirStopsAtFailureWitness ==
  \E t \in Threads :
    /\ ed[t].pc = "done" /\ ed[t].path = PathABC
    /\ ed[t].created = {Components(<<"a">>)}
    /\ ed[t].failedAt = 4 /\ ed[t].err = EACCES
    /\ ed[t].visited = <<2, 4>>
    /\ tree[Components(<<"a">>)] = "dir"

(***************************************************************************)
(* C25: kk_os_app_path_generic takes exactly one of three ways, tried in   *)
(* this order: an argv[0] that starts with '/' gives kk_os_realpath of     *)
(* argv[0]; otherwise an argv[0] that holds a '/' gives kk_os_realpath of  *)
(* "./" and argv[0]; otherwise PATH is searched for argv[0].  A NULL or    *)
(* empty argv[0] gives the empty string and no stat or realpath is called. *)
(***************************************************************************)
\* realpath of path, or path itself where realpath fails
Canonical(path) ==
  IF OsRealpath(pfs, path).ok THEN OsRealpath(pfs, path).rpath ELSE path

GenericThreeCases ==
  (ps.pc = "done" /\ platform = "generic") =>
    LET a == ps.argv0
        first == SubSeq(ps.paths, 1, SegmentEnd(ps.paths, 1) - 1)
    IN  IF a = NullStr \/ a = <<>>
          THEN ps.result = <<>> /\ ps.oscalls = 0 /\ ps.probes = <<>>
        ELSE IF a[1] = "/"
          THEN ps.result = Canonical(a) /\ ps.oscalls = 1 /\ ps.probes = <<>>
        ELSE IF \E j \in 1..Len(a) : a[j] = "/"
          THEN ps.result = Canonical(<<".", "/">> \o a) /\ ps.oscalls = 1 /\ ps.probes = <<>>
        ELSE /\ ps.arg = <<>>
             /\ (ps.paths # NullStr /\ ps.paths # <<>>) =>
                  (ps.probes # <<>> /\ ps.probes[1] = first \o <<"/">> \o a)
             /\ ps.paths \in {NullStr, <<>>} =>
                  (ps.probes = <<>> /\ ps.result = Canonical(a) /\ ps.oscalls = 1)

\* argv[0] is absolute and holds more separators: it is canonicalized as it is
GenericThreeCasesWitness ==
  /\ ps.pc = "done" /\ platform = "generic"
  /\ ps.argv0 = <<"/", "y", "/", "/", "t">>
  /\ ps.result = <<"/", "y", "/", "t">> /\ ps.oscalls = 1

(***************************************************************************)
(* C26: when the read loop of kk_os_read_text_file ends with an error that *)
(* is not retried, the call returns that error and no contents; and when   *)
(* the file cannot be opened (it does not exist) the call returns a status *)
(* other than Ok and no contents.                                          *)
(***************************************************************************)
ReadErrorsReturned ==
  \A i \in 1..Len(hist) :
    LET h == hist[i]
    IN  h.op = "read" =>
          /\ h.rerr # 0 => (h.status = h.rerr /\ h.result = NoResult)
          /\ h.fresh => (h.status # 0 /\ h.result = NoResult)

(***************************************************************************)
(* C27: whenever kk_os_ensure_dir(path) returns Ok, the path and each of   *)
(* its prefixes is a directory at that moment; it does not return Ok when  *)
(* the last component is a regular file.                                   *)
(***************************************************************************)
EnsureDirOkIsDir ==
  \A t \in Threads :
    (ed[t].pc = "done" /\ ed[t].err = 0) =>
      \A n \in NodesOf(ed[t].path) : ed[t].tree1[n] = "dir"

(***************************************************************************)
(* C28: when kk_os_write_text_file(path, c) has returned Ok for a path     *)
(* that held a file, the file holds exactly c: nothing of its earlier,     *)
(* longer contents is left behind the end of c.                            *)
(***************************************************************************)
OverwriteExact ==
  (io.pc = "idle" /\ Len(hist) > 0) =>
    LET h == hist[Len(hist)]
    IN  (h.op = "write" /\ ~h.fresh /\ h.status = 0) =>
          (files[h.path].exists /\ files[h.path].data = h.content)

====
